---- MODULE Spec2Model ----
(***************************************************************************)
(* Model of the skillshub hybrid retrieval service:                        *)
(*   src/tools/skillshub/build_index.py  (build_index, update_index)       *)
(*   src/tools/skillshub/service.py      (load_index, search, /index/...)  *)
(*                                                                         *)
(* Vectors are abstracted to labelled rows: a row records the document it  *)
(* was computed from, the content of that document at the time, and the    *)
(* vectorizer generation that produced it (0 for a dense row).  A faiss    *)
(* index and an .npz field matrix are a dimension d plus a sequence of     *)
(* rows; faiss refuses (raises) an add or a search whose dimension differs *)
(* from the index's.  Paths resolve to the working directory (the          *)
(* deployment without /data/index); the corpus of both writers is the      *)
(* Skill table read by load_from_db, in id order.                          *)
(***************************************************************************)
EXTENDS Integers, Sequences, FiniteSets, TLC

(* ------------------------------ bounds -------------------------------- *)
MaxFits == 2        \* vectorizer fits (build_index runs that reach fit_transform)
MaxUpdates == 1     \* update_index runs that reach the incremental path
MaxCorpusOps == 1   \* changes of the Skill table between index operations
MaxCrashes == 1     \* build/update runs aborted by an exception (FaultSpec)

(* --------------------------- program constants ------------------------ *)
TFIDF_MAX_FEATURES == 4096
DenseDim == 384            \* output width of MODEL_NAME (MiniLM-L12)
SmallVocabulary == 7       \* a vocabulary smaller than TFIDF_MAX_FEATURES
SparseDims == {TFIDF_MAX_FEATURES, SmallVocabulary}

DocIds == {"A", "B", "D"}
Contents == {"c1", "c2"}
Absent == "absent"

(* load_from_db returns the rows of the Skill table; ids are ordered       *)
DocOrder == <<"A", "B", "D">>

VARIABLES
    corpus,                  \* Skill table: DocIds -> Contents \cup {Absent}
    fs,                      \* persisted artifacts
    sbert_index,             \* service.py globals
    tfidf_index,
    metas,
    index_meta,
    tfidf_vectorizer,
    tfidf_field_embeddings,
    sbert_field_embeddings,
    model,                   \* TRUE iff the SentenceTransformer was loaded
    api_key,                 \* os.environ SKILLSHUB_API_KEY
    resp,                    \* the last HTTP response
    fits, updates, corpusOps,  \* operations counted against the bounds
    faultsLeft,              \* exceptions the environment may still inject
    inflight,                \* a /search request in progress: position and locals
    writer,                  \* a /index/rebuild or /index/update in progress
    call,                    \* a helper function called on its own: name and arguments
    ret                      \* <<>> until it returns, then <<its value>>

svc == <<sbert_index, tfidf_index, metas, index_meta, tfidf_vectorizer,
         tfidf_field_embeddings, sbert_field_embeddings>>
counters == <<fits, updates, corpusOps, faultsLeft>>
threads == <<inflight, writer>>
unit == <<call, ret>>
vars == <<corpus, fs, svc, model, api_key, resp, counters, threads, unit>>

\* no helper is being called on its own
NoCall == [fn |-> "none", arg |-> <<>>]

(* ------------------------------ artifacts ----------------------------- *)
NoIndex == [d |-> 0, rows |-> <<>>]            \* file absent / None
NoVectorizer == [gen |-> 0, d |-> 0]
NoMetaFile == [present |-> FALSE, recs |-> <<>>]
NoIndexMeta ==
    [present |-> FALSE, embedding_type |-> "null", index_path |-> "null",
     sbert_index_path |-> "null", tfidf_index_path |-> "null",
     available_engines |-> {}, tfidf_vectorizer_path |-> "null",
     tfidf_fields_path |-> "null", sbert_fields_path |-> "null"]

EmptyDisk ==
    [vec |-> NoVectorizer, tfFields |-> NoIndex, sbFields |-> NoIndex,
     idx |-> NoIndex, tfidfIdx |-> NoIndex, metas |-> NoMetaFile,
     imeta |-> NoIndexMeta]

Exists(file) == file.d # 0

\* the documents present in the Skill table, in table order
load_from_db(c) ==
    LET present(i) == c[DocOrder[i]] # Absent
        idxs == SelectSeq([i \in 1..Len(DocOrder) |-> i], present)
    IN [k \in 1..Len(idxs) |-> [id |-> DocOrder[idxs[k]], c |-> c[DocOrder[idxs[k]]]]]

\* new_skills = [s for s in all_skills if s['id'] not in indexed_ids]
NewSkills(items, indexed_ids) ==
    LET fresh(item) == item.id \notin indexed_ids
    IN SelectSeq(items, fresh)

SparseRows(items, vz) == [i \in 1..Len(items) |-> [id |-> items[i].id, c |-> items[i].c, vz |-> vz]]
DenseRows(items) == SparseRows(items, 0)
\* a metadata list that drops every record
NoMetaRecs(items) == <<>>
MetaRecs(items) == [i \in 1..Len(items) |-> [id |-> items[i].id, c |-> items[i].c]]

(* ------------------------------ build_index --------------------------- *)
\* number of file writes a complete build performs
BuildWrites(sbertOk) == IF sbertOk THEN 7 ELSE 5

\* build_index over the whole corpus.  o.sbertOk: the embedding model was
\* constructed and encoded (lines 243-262); o.d, o.g: dimension and
\* generation of the vectorizer fitted; o.n: number of file writes that
\* complete before an exception aborts the build (none aborts it when
\* o.n >= BuildWrites(o.sbertOk)).
build_index(disk, items, o) ==
    IF items = <<>> THEN [fs |-> disk, raised |-> FALSE, path |-> "empty"]
    ELSE
    LET sbertOk == o.sbertOk
        d == o.d
        g == o.g
        n == o.n
        tf == [d |-> d, rows |-> SparseRows(items, g)]
        sb == [d |-> DenseDim, rows |-> DenseRows(items)]
        wMetas == IF sbertOk THEN 6 ELSE 4
        wIMeta == IF sbertOk THEN 7 ELSE 5
        imeta ==
            [present |-> TRUE,
             embedding_type |-> IF sbertOk THEN "hybrid" ELSE "tfidf",
             index_path |-> "skills.idx",
             sbert_index_path |-> IF sbertOk THEN "skills.idx" ELSE "null",
             tfidf_index_path |-> IF sbertOk THEN "skills_tfidf.idx" ELSE "skills.idx",
             available_engines |-> IF sbertOk THEN {"tfidf", "sbert", "hybrid"} ELSE {"tfidf"},
             tfidf_vectorizer_path |-> "skills_tfidf_vectorizer.pkl",
             tfidf_fields_path |-> "skills_tfidf_fields.npz",
             sbert_fields_path |-> IF sbertOk THEN "skills_sbert_fields.npz" ELSE "null"]
    IN [fs |->
          [vec      |-> IF n >= 1 THEN [gen |-> g, d |-> d] ELSE disk.vec,
           tfFields |-> IF n >= 2 THEN tf ELSE disk.tfFields,
           idx      |-> IF n >= 3 THEN (IF sbertOk THEN sb ELSE tf) ELSE disk.idx,
           tfidfIdx |-> IF sbertOk /\ n >= 4 THEN tf ELSE disk.tfidfIdx,
           sbFields |-> IF sbertOk /\ n >= 5 THEN sb ELSE disk.sbFields,
           metas    |-> IF n >= wMetas THEN [present |-> TRUE, recs |-> MetaRecs(items)]
                        ELSE disk.metas,
           imeta    |-> IF n >= wIMeta THEN imeta ELSE disk.imeta],
        raised |-> n < BuildWrites(sbertOk),
        path |-> "build"]

(* ------------------------------ update_index -------------------------- *)
AddRows(file, rows) == [file EXCEPT !.rows = @ \o rows]

\* update_index without its tests: every run is a full build
update_index_always_builds(disk, items, o) == build_index(disk, items, o)

\* a vectorizer fitted anew instead of the one read from the store
RefittedVectorizer(disk) == [gen |-> disk.vec.gen + 1, d |-> disk.vec.d]

\* vectorizer = pickle.load(f) of skills_tfidf_vectorizer.pkl (lines 340-341)
StoredVectorizer(disk) == disk.vec

\* update_index.  o.sbertOk: the guard of line 414 holds and the model
\* encodes; o.tfFieldsOk, o.sbFieldsOk: the guarded per-field matrix
\* rewrites (lines 401-412, 437-447) succeed; o.sbWriteOk: writing the
\* dense index succeeds; o.n: how many of the two unguarded writes (sparse
\* index, metadata list) complete.  o.d, o.g serve the fallback build.
update_index(disk, items, o) ==
    IF ~disk.metas.present THEN build_index(disk, items, o)
    ELSE
    LET existing_metas == disk.metas.recs
        indexed_ids == {existing_metas[i].id : i \in 1..Len(existing_metas)}
        new_skills == NewSkills(items, indexed_ids)
    IN
    IF new_skills = <<>> THEN [fs |-> disk, raised |-> FALSE, path |-> "noop"]
    ELSE IF ~Exists(disk.idx) \/ ~Exists(disk.vec) THEN build_index(disk, items, o)
    ELSE
    LET vectorizer == StoredVectorizer(disk)
        target == IF Exists(disk.tfidfIdx) THEN "tfidfIdx" ELSE "idx"
        \* tfidf_index.add raises on a dimension mismatch
        addOk == disk[target].d = vectorizer.d /\ o.n >= 1
        d1 == [disk EXCEPT ![target] = AddRows(@, SparseRows(new_skills, vectorizer.gen))]
        d2 == IF Exists(d1.tfFields) /\ o.tfFieldsOk /\ d1.tfFields.d = vectorizer.d
              THEN [d1 EXCEPT !.tfFields = AddRows(@, SparseRows(new_skills, vectorizer.gen))]
              ELSE d1
        d3 == IF o.sbertOk /\ Exists(d2.sbFields) /\ o.sbFieldsOk
              THEN [d2 EXCEPT !.sbFields = AddRows(@, DenseRows(new_skills))]
              ELSE d2
        \* sbert_index = faiss.read_index(index_out): whatever skills.idx holds
        d4 == IF o.sbertOk /\ d2.idx.d = DenseDim /\ o.sbWriteOk
              THEN [d3 EXCEPT !.idx = AddRows(@, DenseRows(new_skills))]
              ELSE d3
        d5 == [d4 EXCEPT !.metas = [present |-> TRUE,
                                    recs |-> existing_metas \o MetaRecs(new_skills)]]
    IN IF ~addOk THEN [fs |-> disk, raised |-> TRUE, path |-> "append"]
       ELSE IF o.n < 2 THEN [fs |-> d4, raised |-> TRUE, path |-> "append"]
       ELSE [fs |-> d5, raised |-> FALSE, path |-> "append"]

(* ------------------------------ load_index ---------------------------- *)
ReadIndex(disk, path) ==
    IF path = "skills.idx" THEN disk.idx
    ELSE IF path = "skills_tfidf.idx" THEN disk.tfidfIdx
    ELSE NoIndex

OrElse(a, b) == IF a # "null" THEN a ELSE b

\* load_index: <<sbert_index, tfidf_index, metas, index_meta>>
load_index(disk) ==
    LET im == disk.imeta
        et == im.embedding_type
        sbert_index_path ==
            IF im.present
            THEN IF "sbert" \in im.available_engines \/ et \in {"sbert", "hybrid"}
                 THEN OrElse(im.sbert_index_path, im.index_path) ELSE "null"
            ELSE "skills.idx"
        tfidf_index_path ==
            IF im.present
            THEN IF "tfidf" \in im.available_engines \/ et \in {"tfidf", "hybrid"}
                 THEN OrElse(im.tfidf_index_path, im.index_path) ELSE "null"
            ELSE "skills.idx"
        sIdx == ReadIndex(disk, sbert_index_path)
        tRead == ReadIndex(disk, tfidf_index_path)
        tIdx == IF Exists(tRead) THEN tRead
                ELSE IF et = "tfidf" /\ Exists(sIdx) THEN sIdx
                ELSE NoIndex
    IN [sbert_index |-> sIdx, tfidf_index |-> tIdx,
        metas |-> IF disk.metas.present THEN disk.metas.recs ELSE <<>>,
        index_meta |-> im]

(* ------------------------------ strings ------------------------------ *)
\* A string is a sequence of one-character strings.
LowerChar(ch) ==
    CASE ch = "A" -> "a" [] ch = "B" -> "b" [] ch = "E" -> "e" [] ch = "H" -> "h"
      [] ch = "O" -> "o" [] ch = "S" -> "s" [] ch = "T" -> "t" [] ch = "V" -> "v"
      [] ch = "D" -> "d" [] ch = "I" -> "i" [] ch = "L" -> "l"
      [] OTHER -> ch

\* str.lower()
Lower(str) == [i \in 1..Len(str) |-> LowerChar(str[i])]

RECURSIVE LStrip(_)
LStrip(str) == IF str # <<>> /\ Head(str) = " " THEN LStrip(Tail(str)) ELSE str

RECURSIVE RStrip(_)
RStrip(str) ==
    IF str # <<>> /\ str[Len(str)] = " " THEN RStrip(SubSeq(str, 1, Len(str) - 1)) ELSE str

\* str.strip()
Strip(str) == RStrip(LStrip(str))

\* str.replace('-', ' ')
ReplaceHyphen(str) == [i \in 1..Len(str) |-> IF str[i] = "-" THEN " " ELSE str[i]]

RECURSIVE SplitOn(_, _, _)
\* str.split(sep): cur is the piece being read
SplitOn(str, sep, cur) ==
    IF str = <<>> THEN <<cur>>
    ELSE IF Head(str) = sep THEN <<cur>> \o SplitOn(Tail(str), sep, <<>>)
    ELSE SplitOn(Tail(str), sep, cur \o <<Head(str)>>)

NonEmpty(str) == str # <<>>

\* str.split(): whitespace-separated tokens, empty pieces dropped
Tokens(str) == SelectSeq(SplitOn(str, " ", <<>>), NonEmpty)

(* ------------------------------ documents ----------------------------- *)
\* The attributes of the corpus records, as build_index copies them into the
\* metadata records (lines 184-202).
Catalog ==
    [A |-> [name |-> <<"v", " ", "e">>, owner |-> <<"B", "o", "b">>,
            source |-> <<"h", "u", "b">>,
            tags |-> << <<"V", "i", "d">>, <<"a", "i">> >>,
            requires_internet |-> "true"],
     B |-> [name |-> <<"s", " ", "t">>, owner |-> <<"b", "o", "b">>,
            source |-> <<"l", "a", "b">>,
            tags |-> << <<"v", "i", "d">> >>,
            requires_internet |-> "null"],
     D |-> [name |-> <<"V", "-", "E">>, owner |-> <<"a", "l">>,
            source |-> <<"H", "u", "b", " ">>,
            tags |-> << >>,
            requires_internet |-> "false"]]

\* The records of a corpus file (build_index lines 143-160): a name and
\* nothing else
FileCatalog ==
    [RA |-> [name |-> <<"v", "i", "d", "e", "o", " ", "e", "d", "i", "t", "o", "r">>,
             owner |-> <<>>, source |-> <<>>, tags |-> << >>, requires_internet |-> "null"],
     RB |-> [name |-> <<"s", "p", "r", "e", "a", "d", "s", "h", "e", "e", "t", " ",
                        "t", "o", "o", "l">>,
             owner |-> <<>>, source |-> <<>>, tags |-> << >>, requires_internet |-> "null"],
     RC |-> [name |-> <<"V", "i", "d", "e", "o", " ", "E", "d", "i", "t", "o", "r">>,
             owner |-> <<>>, source |-> <<>>, tags |-> << >>, requires_internet |-> "null"]]

FileIds == {"RA", "RB", "RC"}

\* metas[idx]['name']: the name of the record with the given id
NameOf(id) == IF id \in FileIds THEN FileCatalog[id].name ELSE Catalog[id].name

\* bool(row.get('requires_internet'))
Truthy(flag) == flag = "true"

(* ----------------------- _apply_metadata_filters ---------------------- *)
NormSet(strs) == {Lower(Strip(strs[i])) : i \in 1..Len(strs)}

FilterActive(tags, owner, source, requires_internet) ==
    tags # <<>> \/ owner # <<>> \/ source # <<>> \/ requires_internet # "null"

\* RowPasses without the comparison of the owner
RowPassesAnyOwner(row, tags, owner, source, requires_internet) ==
    LET a == Catalog[row.id]
        tag_set == NormSet(SelectSeq(tags, LAMBDA t : Strip(t) # <<>>))
        source_norm == Lower(Strip(source))
    IN /\ tag_set # {} => tag_set \subseteq NormSet(a.tags)
       /\ source_norm # <<>> => Lower(Strip(a.source)) = source_norm
       /\ requires_internet # "null" => (Truthy(a.requires_internet) <=> requires_internet = "true")

\* one row against the filters (the body of the loop, lines 278-292)
RowPasses(row, tags, owner, source, requires_internet) ==
    LET a == Catalog[row.id]
        tag_set == NormSet(SelectSeq(tags, LAMBDA t : Strip(t) # <<>>))
        owner_norm == Lower(Strip(owner))
        source_norm == Lower(Strip(source))
    IN /\ tag_set # {} => tag_set \subseteq NormSet(a.tags)
       /\ owner_norm # <<>> => Lower(Strip(a.owner)) = owner_norm
       /\ source_norm # <<>> => Lower(Strip(a.source)) = source_norm
       /\ requires_internet # "null" => (Truthy(a.requires_internet) <=> requires_internet = "true")

\* tags is the list tags.split(',') (<<>> for None); owner, source are
\* strings (<<>> for None); requires_internet is "null", "true" or "false"
_apply_metadata_filters(rows, tags, owner, source, requires_internet) ==
    IF ~FilterActive(tags, owner, source, requires_internet) THEN rows
    ELSE SelectSeq(rows, LAMBDA row : RowPasses(row, tags, owner, source, requires_internet))

(* ------------------------------ scoring ------------------------------ *)
\* Scores and weights are fixed-point numbers: One stands for 1.0.
One == 1200
DEFAULT_HYBRID_NLP_WEIGHT == 840          \* 0.7
DEFAULT_HYBRID_ALPHA_SHORT_QUERY == 660   \* 0.55
DEFAULT_HYBRID_ALPHA_LONG_QUERY == 900    \* 0.75
EXACT_MATCH_BONUS == 180                  \* 0.15
FIELD_BONUS == 60                         \* 0.05
FIELD_NAMES == <<"name", "description", "excerpt">>
DEFAULT_FIELD_WEIGHTS == [name |-> 720, description |-> 360, excerpt |-> 120]

RECURSIVE SumSeq(_)
SumSeq(xs) == IF xs = <<>> THEN 0 ELSE Head(xs) + SumSeq(Tail(xs))

\* _normalize_field_weights of service.py without the clamp of line 219
_normalize_field_weights_unclamped(weights) ==
    LET base == [f \in DOMAIN DEFAULT_FIELD_WEIGHTS |->
                    IF f \in DOMAIN weights THEN weights[f] ELSE DEFAULT_FIELD_WEIGHTS[f]]
        total == SumSeq([i \in 1..Len(FIELD_NAMES) |-> base[FIELD_NAMES[i]]])
    IN IF total <= 0
       THEN [f \in DOMAIN base |-> One \div Len(FIELD_NAMES)]
       ELSE [f \in DOMAIN base |-> (base[f] * One) \div total]

\* service.py _normalize_field_weights: weights is the decoded override, a
\* function from some of the field names to numbers
_normalize_field_weights(weights) ==
    LET base == [f \in DOMAIN DEFAULT_FIELD_WEIGHTS |->
                    IF f \in DOMAIN weights THEN weights[f] ELSE DEFAULT_FIELD_WEIGHTS[f]]
        clamped == [f \in DOMAIN base |-> IF base[f] < 0 THEN 0 ELSE base[f]]
        total == SumSeq([i \in 1..Len(FIELD_NAMES) |-> clamped[FIELD_NAMES[i]]])
    IN IF total <= 0
       THEN [f \in DOMAIN base |-> One \div Len(FIELD_NAMES)]
       ELSE [f \in DOMAIN base |-> (clamped[f] * One) \div total]

\* build_index.py _normalize_field_weights (lines 97-109): a field missing
\* from weights counts as 0.0
builder_normalize_field_weights(weights) ==
    LET value == [f \in DOMAIN DEFAULT_FIELD_WEIGHTS |->
                    IF f \in DOMAIN weights THEN weights[f] ELSE 0]
        normalized == [f \in DOMAIN value |-> IF value[f] < 0 THEN 0 ELSE value[f]]
        total == SumSeq([i \in 1..Len(FIELD_NAMES) |-> normalized[FIELD_NAMES[i]]])
    IN IF total <= 0
       THEN [f \in DOMAIN value |-> One \div Len(FIELD_NAMES)]
       ELSE [f \in DOMAIN value |-> (normalized[f] * One) \div total]

Max(S) == CHOOSE x \in S : \A y \in S : y <= x
Min(S) == CHOOSE x \in S : \A y \in S : x <= y

\* _normalize_scores: min-max normalisation of a list of scores
\* _normalize_scores without the min-max scaling of lines 236-238
_normalize_scores_raw(values) == values

_normalize_scores(values) ==
    IF values = <<>> THEN <<>>
    ELSE LET S == {values[i] : i \in 1..Len(values)}
             max_val == Max(S)
             min_val == Min(S)
         IN IF max_val = min_val THEN [i \in 1..Len(values) |-> 0]
            ELSE [i \in 1..Len(values) |-> ((values[i] - min_val) * One) \div (max_val - min_val)]

\* _detect_exact_match without the comparison of line 248 (hyphens as spaces)
_detect_exact_match_literal(query, id) ==
    LET q == Lower(Strip(query))
        name == Lower(Strip(NameOf(id)))
    IN IF q = <<>> THEN FALSE ELSE name = q

_detect_exact_match(query, id) ==
    LET q == Lower(Strip(query))
        name == Lower(Strip(NameOf(id)))
    IN IF q = <<>> THEN FALSE
       ELSE name = q \/ ReplaceHyphen(q) = ReplaceHyphen(name)

_query_length(query) == Len(Tokens(Strip(query)))

\* _select_hybrid_alpha without the interpolation of lines 263-264
_select_hybrid_alpha_stepped(query) ==
    IF _query_length(query) <= 2 THEN DEFAULT_HYBRID_ALPHA_SHORT_QUERY
    ELSE DEFAULT_HYBRID_ALPHA_LONG_QUERY

_select_hybrid_alpha(query) ==
    LET length == _query_length(query)
        span == DEFAULT_HYBRID_ALPHA_LONG_QUERY - DEFAULT_HYBRID_ALPHA_SHORT_QUERY
    IN IF length <= 2 THEN DEFAULT_HYBRID_ALPHA_SHORT_QUERY
       ELSE IF length >= 5 THEN DEFAULT_HYBRID_ALPHA_LONG_QUERY
       ELSE DEFAULT_HYBRID_ALPHA_SHORT_QUERY + (length - 2) * (span \div 3)

RECURSIVE InsertAscending(_, _)
\* InsertStable for an ascending sort
InsertAscending(sorted, x) ==
    IF sorted = <<>> THEN <<x>>
    ELSE IF Head(sorted).score <= x.score
         THEN <<Head(sorted)>> \o InsertAscending(Tail(sorted), x)
         ELSE <<x>> \o sorted

RECURSIVE InsertStable(_, _)
InsertStable(sorted, x) ==
    IF sorted = <<>> THEN <<x>>
    ELSE IF Head(sorted).score >= x.score
         THEN <<Head(sorted)>> \o InsertStable(Tail(sorted), x)
         ELSE <<x>> \o sorted

RECURSIVE SortDesc(_, _)
\* list.sort(key=score, reverse=True): stable, descending
SortDesc(items, acc) ==
    IF items = <<>> THEN acc ELSE SortDesc(Tail(items), InsertStable(acc, Head(items)))

Take(seq, n) == SubSeq(seq, 1, IF n < Len(seq) THEN n ELSE Len(seq))

\* faiss IndexFlatIP.search(emb, k): the k best rows by inner product, best
\* first; score[pos] is the inner product of the query with row pos.  The
\* entries faiss pads with index -1 are skipped by every caller and left out.
IndexSearch(ix, score, k) ==
    Take(SortDesc([pos \in 1..Len(ix.rows) |-> [pos |-> pos, score |-> score[pos]]], <<>>), k)

(* ------------------------- lazy loaders (service) --------------------- *)
\* The globals of service.py as one record g; a search works on
\* st = [g |-> globals, c |-> the locals of the request].

\* load_tfidf_vectorizer(index_meta): g with the cache filled when the
\* pickle named by the index-meta can be read ('tfidf_vectorizer.pkl', the
\* default name, is written by no build)
\* load_tfidf_vectorizer without the test of line 163: the pickle is read on every call
load_tfidf_vectorizer_uncached(g) ==
    IF g.index_meta.tfidf_vectorizer_path = "skills_tfidf_vectorizer.pkl"
    THEN [g EXCEPT !.tfidf_vectorizer = g.fs.vec]
    ELSE g

load_tfidf_vectorizer(g) ==
    IF Exists(g.tfidf_vectorizer) THEN g
    ELSE IF g.index_meta.tfidf_vectorizer_path = "skills_tfidf_vectorizer.pkl"
         THEN [g EXCEPT !.tfidf_vectorizer = g.fs.vec]
         ELSE g

load_field_embeddings(g) ==
    LET g1 == IF ~Exists(g.tfidf_field_embeddings)
                 /\ g.index_meta.tfidf_fields_path = "skills_tfidf_fields.npz"
              THEN [g EXCEPT !.tfidf_field_embeddings = g.fs.tfFields] ELSE g
    IN IF ~Exists(g1.sbert_field_embeddings)
          /\ g1.index_meta.sbert_fields_path = "skills_sbert_fields.npz"
       THEN [g1 EXCEPT !.sbert_field_embeddings = g1.fs.sbFields] ELSE g1

(* ------------------------------ search -------------------------------- *)
NoEmb == [d |-> 0, gen |-> 0]
\* status 0: the request is still running

\* the locals of a request before its first statement
StartCtx ==
    [status |-> 0, engine |-> "null", weight |-> DEFAULT_HYBRID_NLP_WEIGHT,
     nfw |-> DEFAULT_FIELD_WEIGHTS, sbert_emb |-> NoEmb, tfidf_emb |-> NoEmb,
     cands |-> <<>>, searched |-> {}, results |-> <<>>]

Fail(st, code) == [st EXCEPT !.c.status = code]

RequestedEngine(req) == IF req.engine = "" THEN "auto" ELSE req.engine

\* Validate without the range check of hybrid_weight
ValidateAnyWeight(st, req) ==
    LET g == st.g
        weight == IF req.hybrid_weight = <<>> THEN DEFAULT_HYBRID_NLP_WEIGHT
                  ELSE req.hybrid_weight[1]
    IN IF st.c.status # 0 THEN st
       ELSE IF g.metas = <<>> \/ (~Exists(g.sbert_index) /\ ~Exists(g.tfidf_index))
       THEN Fail(st, 503)
       ELSE IF RequestedEngine(req) \notin {"auto", "sbert", "tfidf", "hybrid"}
       THEN Fail(st, 400)
       ELSE IF req.field_weights.kind \in {"not_json", "not_object"} THEN Fail(st, 400)
       ELSE [st EXCEPT !.c.weight = weight,
                       !.c.nfw = _normalize_field_weights(req.field_weights.w)]

\* lines 308-333: index present, then the request's configuration
Validate(st, req) ==
    LET g == st.g
        weight == IF req.hybrid_weight = <<>> THEN DEFAULT_HYBRID_NLP_WEIGHT
                  ELSE req.hybrid_weight[1]
    IN IF st.c.status # 0 THEN st
       ELSE IF g.metas = <<>> \/ (~Exists(g.sbert_index) /\ ~Exists(g.tfidf_index))
       THEN Fail(st, 503)
       ELSE IF RequestedEngine(req) \notin {"auto", "sbert", "tfidf", "hybrid"}
       THEN Fail(st, 400)
       ELSE IF weight < 0 \/ weight > One THEN Fail(st, 400)
       ELSE IF req.field_weights.kind \in {"not_json", "not_object"} THEN Fail(st, 400)
       ELSE [st EXCEPT !.c.weight = weight,
                       !.c.nfw = _normalize_field_weights(req.field_weights.w)]

\* ResolveEngine preferring the sparse index
ResolveEngineSparseFirst(st, req) ==
    LET g == st.g
        requested_engine == RequestedEngine(req)
    IN IF st.c.status # 0 THEN st
       ELSE IF requested_engine = "auto"
       THEN IF Exists(g.tfidf_index) THEN [st EXCEPT !.c.engine = "tfidf"]
            ELSE IF g.model /\ Exists(g.sbert_index) THEN [st EXCEPT !.c.engine = "sbert"]
            ELSE Fail(st, 503)
       ELSE IF requested_engine = "sbert"
       THEN IF ~g.model \/ ~Exists(g.sbert_index) THEN Fail(st, 503)
            ELSE [st EXCEPT !.c.engine = "sbert"]
       ELSE IF requested_engine = "tfidf"
       THEN IF ~Exists(g.tfidf_index) THEN Fail(st, 503)
            ELSE [st EXCEPT !.c.engine = "tfidf"]
       ELSE IF ~g.model \/ ~Exists(g.sbert_index) \/ ~Exists(g.tfidf_index)
            THEN Fail(st, 503)
            ELSE [st EXCEPT !.c.engine = "hybrid"]

\* lines 335-351
ResolveEngine(st, req) ==
    LET g == st.g
        requested_engine == RequestedEngine(req)
    IN IF st.c.status # 0 THEN st
       ELSE IF requested_engine = "auto"
       THEN IF g.model /\ Exists(g.sbert_index) THEN [st EXCEPT !.c.engine = "sbert"]
            ELSE IF Exists(g.tfidf_index) THEN [st EXCEPT !.c.engine = "tfidf"]
            ELSE Fail(st, 503)
       ELSE IF requested_engine = "sbert"
       THEN IF ~g.model \/ ~Exists(g.sbert_index) THEN Fail(st, 503)
            ELSE [st EXCEPT !.c.engine = "sbert"]
       ELSE IF requested_engine = "tfidf"
       THEN IF ~Exists(g.tfidf_index) THEN Fail(st, 503)
            ELSE [st EXCEPT !.c.engine = "tfidf"]
       ELSE IF ~g.model \/ ~Exists(g.sbert_index) \/ ~Exists(g.tfidf_index)
            THEN Fail(st, 503)
            ELSE [st EXCEPT !.c.engine = "hybrid"]

\* lines 353-373; env.encodeOk: model.encode returns
EncodeQuery(st, env) ==
    LET use_engine == st.c.engine
        dense == use_engine \in {"sbert", "hybrid"} /\ st.g.model
        g1 == IF use_engine \in {"tfidf", "hybrid"} THEN load_tfidf_vectorizer(st.g) ELSE st.g
        vectorizer == g1.tfidf_vectorizer
    IN IF st.c.status # 0 THEN st
       ELSE IF dense /\ ~env.encodeOk THEN Fail(st, 500)
       ELSE IF use_engine \in {"tfidf", "hybrid"} /\ ~Exists(vectorizer)
       THEN Fail([st EXCEPT !.g = g1,
                            !.c.sbert_emb = IF dense THEN [d |-> DenseDim, gen |-> 0] ELSE NoEmb],
                 503)
       ELSE [st EXCEPT !.g = g1,
                       !.c.sbert_emb = IF dense THEN [d |-> DenseDim, gen |-> 0] ELSE NoEmb,
                       !.c.tfidf_emb = IF use_engine \in {"tfidf", "hybrid"}
                                       THEN [d |-> vectorizer.d, gen |-> vectorizer.gen]
                                       ELSE NoEmb]

MinOf(a, b) == IF a < b THEN a ELSE b
MaxOf(a, b) == IF a > b THEN a ELSE b

\* tags.split(',') if tags else None
TagList(req) == IF req.tags = <<>> THEN <<>> ELSE SplitOn(req.tags, ",", <<>>)

ScoreAt(res, pos) ==
    IF \E i \in 1..Len(res) : res[i].pos = pos
    THEN res[CHOOSE i \in 1..Len(res) : res[i].pos = pos].score
    ELSE 0

\* lines 376-427: the hybrid candidate list `top`, unless an exception is raised
HybridCandidates(g, c, req, env) ==
    LET candidate_k == MinOf(Len(g.metas), MaxOf(req.k, req.k * 4))
        sres == IndexSearch(g.sbert_index, env.sbert, candidate_k)
        tres == IndexSearch(g.tfidf_index, env.tfidf, candidate_k)
        sPos == {sres[i].pos : i \in 1..Len(sres)}
        tOnly == SelectSeq(tres, LAMBDA e : e.pos \notin sPos)
        \* the keys of score_map, in insertion order
        keys == [i \in 1..Len(sres) |-> sres[i].pos] \o [i \in 1..Len(tOnly) |-> tOnly[i].pos]
        sbert_norm == _normalize_scores([i \in 1..Len(keys) |-> ScoreAt(sres, keys[i])])
        tfidf_norm == _normalize_scores([i \in 1..Len(keys) |-> ScoreAt(tres, keys[i])])
        alpha == _select_hybrid_alpha(req.q)
        effective_weight == (c.weight + alpha) \div 2
        combined == SortDesc(
            [i \in 1..Len(keys) |->
                [pos |-> keys[i],
                 score |-> (effective_weight * sbert_norm[i]
                            + (One - effective_weight) * tfidf_norm[i]) \div One]], <<>>)
        inRange == \A i \in 1..Len(combined) : combined[i].pos <= Len(g.metas)
        candidates == [i \in 1..Len(combined) |-> g.metas[combined[i].pos]]
        candidate_rows == _apply_metadata_filters(candidates, TagList(req), req.owner,
                                                  req.source, req.requires_internet)
        candidate_ids_filtered == {candidate_rows[i].id : i \in 1..Len(candidate_rows)}
        filtered == SelectSeq(combined, LAMBDA item : g.metas[item.pos].id \in candidate_ids_filtered)
    IN IF candidate_k <= 0
          \/ ~Exists(g.sbert_index) \/ c.sbert_emb.d # g.sbert_index.d
          \/ ~Exists(g.tfidf_index) \/ c.tfidf_emb.d # g.tfidf_index.d
          \/ ~inRange
       THEN [raised |-> TRUE, list |-> <<>>]
       ELSE [raised |-> FALSE, list |-> Take(filtered, req.k)]

\* lines 376-395 of the same branch: the keys of score_map in insertion
\* order with the normalized scores of the two slots of each, a key the
\* sub-engine did not return having the raw score 0.0 (lines 384, 388)
score_map(g, req, env) ==
    LET candidate_k == MinOf(Len(g.metas), MaxOf(req.k, req.k * 4))
        sres == IndexSearch(g.sbert_index, env.sbert, candidate_k)
        tres == IndexSearch(g.tfidf_index, env.tfidf, candidate_k)
        sPos == {sres[i].pos : i \in 1..Len(sres)}
        tOnly == SelectSeq(tres, LAMBDA e : e.pos \notin sPos)
        keys == [i \in 1..Len(sres) |-> sres[i].pos] \o [i \in 1..Len(tOnly) |-> tOnly[i].pos]
    IN [keys |-> keys,
        sbert_norm |-> _normalize_scores([i \in 1..Len(keys) |-> ScoreAt(sres, keys[i])]),
        tfidf_norm |-> _normalize_scores([i \in 1..Len(keys) |-> ScoreAt(tres, keys[i])])]

\* lines 429-436: D, I of the single engine, unless an exception is raised
SingleCandidates(g, c, req, env) ==
    LET candidate_k == MinOf(Len(g.metas), MaxOf(req.k, req.k * 3))
        ix == IF c.engine = "sbert" THEN g.sbert_index ELSE g.tfidf_index
        emb == IF c.engine = "sbert" THEN c.sbert_emb ELSE c.tfidf_emb
        score == IF c.engine = "sbert" THEN env.sbert ELSE env.tfidf
    IN IF candidate_k <= 0 \/ ~Exists(ix) \/ emb.d # ix.d
       THEN [raised |-> TRUE, list |-> <<>>]
       ELSE [raised |-> FALSE, list |-> IndexSearch(ix, score, candidate_k)]

\* lines 375-438
Retrieve(st, req, env) ==
    LET found == IF st.c.engine = "hybrid" THEN HybridCandidates(st.g, st.c, req, env)
                 ELSE SingleCandidates(st.g, st.c, req, env)
    IN IF st.c.status # 0 THEN st
       ELSE IF found.raised THEN Fail(st, 500)
       ELSE [st EXCEPT !.c.cands = found.list,
                       \* the index objects whose search produced the scores
                       !.c.searched = IF st.c.engine = "hybrid" THEN {"sbert", "tfidf"}
                                      ELSE {st.c.engine}]

\* lines 440-548: per-field evidence, bonuses, final sort
Assemble(st, req, env) ==
    LET c == st.c
        g1 == load_field_embeddings(st.g)
        active == FilterActive(req.tags, req.owner, req.source, req.requires_internet)
        keep(cand) ==
            /\ cand.pos <= Len(g1.metas)
            /\ active => _apply_metadata_filters(<<g1.metas[cand.pos]>>, TagList(req), req.owner,
                                                 req.source, req.requires_internet) # <<>>
        kept == SelectSeq(c.cands, keep)
        bySbert == c.engine \in {"sbert", "hybrid"} /\ Exists(g1.sbert_field_embeddings)
                   /\ c.sbert_emb.d # 0
        byTfidf == ~bySbert /\ Exists(g1.tfidf_field_embeddings) /\ c.tfidf_emb.d # 0
        byText == ~bySbert /\ ~byTfidf
        g2 == IF byText /\ kept # <<>> THEN load_tfidf_vectorizer(g1) ELSE g1
        \* field_scores is non-empty
        evidence(pos) ==
            IF bySbert THEN pos <= Len(g1.sbert_field_embeddings.rows)
            ELSE IF byTfidf THEN /\ pos <= Len(g1.tfidf_field_embeddings.rows)
                                 /\ g1.tfidf_field_embeddings.d = c.tfidf_emb.d
            ELSE Exists(g2.tfidf_vectorizer)
        weighted(pos) == SumSeq([i \in 1..Len(FIELD_NAMES) |->
                                    env.field[pos][FIELD_NAMES[i]] * c.nfw[FIELD_NAMES[i]]])
        total_weight == SumSeq([i \in 1..Len(FIELD_NAMES) |-> c.nfw[FIELD_NAMES[i]]])
        final(cand) ==
            cand.score
            + (IF _detect_exact_match(req.q, g1.metas[cand.pos].id) THEN EXACT_MATCH_BONUS ELSE 0)
            + (IF evidence(cand.pos) /\ total_weight > 0
               THEN (FIELD_BONUS * weighted(cand.pos)) \div (total_weight * One) ELSE 0)
        results == SortDesc(
            [i \in 1..Len(kept) |->
                [id |-> g1.metas[kept[i].pos].id, pos |-> kept[i].pos,
                 score |-> final(kept[i]),
                 exact_match |-> _detect_exact_match(req.q, g1.metas[kept[i].pos].id)]], <<>>)
        \* line 507 reuses the name `weight` for the field weights
        weightAfter == IF \E i \in 1..Len(kept) : evidence(kept[i].pos)
                       THEN c.nfw[FIELD_NAMES[Len(FIELD_NAMES)]] ELSE c.weight
    IN IF c.status # 0 THEN st
       ELSE [st EXCEPT !.g = g2, !.c.results = results, !.c.weight = weightAfter,
                       !.c.status = 200]

\* the whole handler on one view of the globals
search(g, req, env) ==
    Assemble(Retrieve(EncodeQuery(ResolveEngine(Validate([g |-> g, c |-> StartCtx], req), req),
                                  env), req, env), req, env)

\* the JSON body (lines 536-548) or the HTTPException; with it the request,
\* the environment it ran in (whether model.encode worked, the similarity
\* of the query to each row), and the locals use_engine and the index
\* objects searched, as they stood when the handler returned
Response(c, req, env) ==
    [op |-> "search", status |-> c.status,
     engine |-> IF c.status = 200 THEN c.engine ELSE "null",
     hybrid_weight |-> IF c.status = 200 /\ c.engine = "hybrid" THEN <<c.weight>> ELSE <<>>,
     results |-> IF c.status = 200 THEN c.results ELSE <<>>,
     req |-> req, key |-> "", env |-> env,
     use_engine |-> c.engine, searched |-> c.searched]

\* a request: q, tags, owner, source are strings (<<>> when not given),
\* hybrid_weight is <<>> or <<w>>, field_weights is the kind of the payload
\* and, for a JSON object, the weights it holds
MakeReq(q, k, engine, hybrid_weight, field_weights, tags, owner, source, requires_internet) ==
    [q |-> q, k |-> k, engine |-> engine, hybrid_weight |-> hybrid_weight,
     field_weights |-> field_weights, tags |-> tags, owner |-> owner, source |-> source,
     requires_internet |-> requires_internet]

NoOverride == [kind |-> "none", w |-> <<>>]
NullReq == MakeReq(<<>>, 0, "null", <<>>, NoOverride, <<>>, <<>>, <<>>, "null")
NullEnv == [encodeOk |-> TRUE, sbert |-> <<>>, tfidf |-> <<>>, field |-> <<>>]

(* --------------------------- the service ------------------------------ *)
Globals ==
    [sbert_index |-> sbert_index, tfidf_index |-> tfidf_index, metas |-> metas,
     index_meta |-> index_meta, tfidf_vectorizer |-> tfidf_vectorizer,
     tfidf_field_embeddings |-> tfidf_field_embeddings,
     sbert_field_embeddings |-> sbert_field_embeddings, model |-> model, fs |-> fs]

\* sbert_index, tfidf_index, metas, index_meta = load_index()
\* (lines 597, 641, and 128 at import)
Swap(disk) ==
    LET l == load_index(disk)
    IN /\ sbert_index' = l.sbert_index
       /\ tfidf_index' = l.tfidf_index
       /\ metas' = l.metas
       /\ index_meta' = l.index_meta

\* the reset of the three lazy caches (lines 598-600, 642-644)
ResetCaches ==
    /\ tfidf_vectorizer' = NoVectorizer
    /\ tfidf_field_embeddings' = NoIndex
    /\ sbert_field_embeddings' = NoIndex

\* the reload that ends a writer's handler, with no other thread running
Reload(disk) == Swap(disk) /\ ResetCaches

\* no request in progress, no writer in progress
IdleSearch == [pc |-> "idle", req |-> NullReq, env |-> NullEnv, c |-> StartCtx, views |-> <<>>]
IdleWriter == [pc |-> "idle", op |-> "null", n |-> 0, base |-> EmptyDisk,
               o |-> [sbertOk |-> FALSE, d |-> 0, g |-> 0, n |-> 0, tfFieldsOk |-> TRUE,
                      sbFieldsOk |-> TRUE, sbWriteOk |-> TRUE]]

\* _require_api_key without the comparison of the presented key
_require_api_key_unchecked(x_api_key, env_key) ==
    IF env_key = "" THEN 503 ELSE 0

\* _require_api_key: 0 when the caller may proceed, else the status raised
_require_api_key(x_api_key, env_key) ==
    IF env_key = "" THEN 503
    ELSE IF x_api_key = "" \/ x_api_key # env_key THEN 401
    ELSE 0

\* the response of an administrative handler to credential key
AdminResp(op, status, key) ==
    [op |-> op, status |-> status, engine |-> "null", hybrid_weight |-> <<>>,
     results |-> <<>>, req |-> NullReq, key |-> key, env |-> NullEnv,
     use_engine |-> "null", searched |-> {}]

ApiKeys == {"", "secret", "wrong"}
AdminOps == {"rebuild", "update"}

\* what the environment decides during a build: whether the embedding model
\* loads and encodes, the size of the fitted vocabulary, and how many file
\* writes complete (fewer than BuildWrites: an exception aborts the build)
BuildOutcomes ==
    [sbertOk : BOOLEAN, d : SparseDims, g : {fits + 1},
     n : IF faultsLeft > 0 THEN 0..7 ELSE {7},
     tfFieldsOk : {TRUE}, sbFieldsOk : {TRUE}, sbWriteOk : {TRUE}]

\* ... and during an incremental update
AppendOutcomes ==
    [sbertOk : BOOLEAN, d : {TFIDF_MAX_FEATURES}, g : {fits + 1},
     n : IF faultsLeft > 0 THEN 0..2 ELSE {2},
     tfFieldsOk : BOOLEAN, sbFieldsOk : BOOLEAN, sbWriteOk : BOOLEAN]

FullOutcome == CHOOSE o \in BuildOutcomes : o.n = 7

Count(r) ==
    /\ fits' = IF r.path = "build" THEN fits + 1 ELSE fits
    /\ updates' = IF r.path = "append" THEN updates + 1 ELSE updates
    /\ faultsLeft' = IF r.raised THEN faultsLeft - 1 ELSE faultsLeft
    /\ UNCHANGED corpusOps

\* both administrative handlers: the request is refused
Refuse(op) ==
    \E x_api_key \in ApiKeys :
        /\ _require_api_key(x_api_key, api_key) # 0
        /\ resp' = AdminResp(op, _require_api_key(x_api_key, api_key), x_api_key)
        /\ UNCHANGED <<corpus, fs, svc, model, api_key, unit, counters, threads>>

\* both administrative handlers: the writer ran with result r; an exception
\* becomes a 500 and leaves the globals alone, otherwise the index is reloaded
Administer(op, x_api_key, r) ==
    /\ _require_api_key(x_api_key, api_key) = 0
    /\ r.path = "build" => fits < MaxFits
    /\ r.path = "append" => updates < MaxUpdates
    /\ Count(r)
    /\ fs' = r.fs
    /\ IF r.raised
       THEN resp' = AdminResp(op, 500, x_api_key) /\ UNCHANGED svc
       ELSE resp' = AdminResp(op, 200, x_api_key) /\ Reload(r.fs)
    /\ UNCHANGED <<corpus, model, api_key, unit, threads>>

\* POST /index/rebuild
index_rebuild ==
    \/ Refuse("rebuild")
    \/ \E x_api_key \in ApiKeys, o \in BuildOutcomes :
            Administer("rebuild", x_api_key, build_index(fs, load_from_db(corpus), o))

\* POST /index/update
index_update ==
    \/ Refuse("update")
    \/ \E x_api_key \in ApiKeys,
          o \in (IF update_index(fs, load_from_db(corpus), FullOutcome).path = "build"
                 THEN BuildOutcomes ELSE AppendOutcomes) :
            Administer("update", x_api_key, update_index(fs, load_from_db(corpus), o))

(* ----------------------------- requests ------------------------------ *)
EngineNames == {"auto", "sbert", "tfidf", "hybrid", "sparse"}
DefaultK == 5
Query == <<"v", " ", "e">>

DefaultConfig == [hybrid_weight |-> <<>>, field_weights |-> NoOverride]
\* hybrid_weight and field_weights payloads, valid and invalid
Configs ==
    {DefaultConfig,
     [hybrid_weight |-> <<0 - 1>>, field_weights |-> NoOverride],
     [hybrid_weight |-> <<One + 1>>, field_weights |-> NoOverride],
     [hybrid_weight |-> <<>>, field_weights |-> [kind |-> "not_json", w |-> <<>>]],
     [hybrid_weight |-> <<>>, field_weights |-> [kind |-> "not_object", w |-> <<>>]]}

\* the requests of Spec: every engine by name ("": none given), default
\* configuration
Requests ==
    {MakeReq(Query, DefaultK, e, <<>>, NoOverride, <<>>, <<>>, <<>>, "null")
        : e \in {"auto", "sbert", "tfidf", "hybrid", ""}}

\* the requests of FaultSpec: every engine name with every configuration
ConfiguredRequests ==
    {MakeReq(Query, DefaultK, e, cfg.hybrid_weight, cfg.field_weights,
             <<>>, <<>>, <<>>, "null") : e \in EngineNames, cfg \in Configs}

Positions == 1..(2 * Cardinality(DocIds))
\* the similarity of the query to each row, per engine and per field
FlatScores == [pos \in Positions |-> One \div 2]
FlatFields == [pos \in Positions |-> [name |-> One \div 2, description |-> 0, excerpt |-> 0]]
Envs == {[encodeOk |-> ok, sbert |-> FlatScores, tfidf |-> FlatScores, field |-> FlatFields]
            : ok \in BOOLEAN}

(* ------------------------------ actions ------------------------------- *)
\* GET /search with request req in environment env
Serve(req, env) ==
    LET r == search(Globals, req, env)
    IN /\ resp' = Response(r.c, req, env)
       /\ tfidf_vectorizer' = r.g.tfidf_vectorizer
       /\ tfidf_field_embeddings' = r.g.tfidf_field_embeddings
       /\ sbert_field_embeddings' = r.g.sbert_field_embeddings
       /\ UNCHANGED <<corpus, fs, sbert_index, tfidf_index, metas, index_meta,
                      model, api_key, unit, counters, threads>>

Search == \E req \in Requests, env \in Envs : Serve(req, env)

\* (model.encode is reached by no request that fails validation)
ConfiguredSearch ==
    \E req \in ConfiguredRequests, env \in Envs :
        /\ env.encodeOk \/ (req.hybrid_weight = <<>> /\ req.field_weights = NoOverride)
        /\ Serve(req, env)

\* a skill is registered in the Skill table
AddSkill ==
    \E id \in DocIds :
        /\ corpusOps < MaxCorpusOps
        /\ corpus[id] = Absent
        /\ corpus' = [corpus EXCEPT ![id] = "c1"]
        /\ corpusOps' = corpusOps + 1
        /\ UNCHANGED <<fs, svc, model, api_key, unit, resp, fits, updates, faultsLeft, threads>>

\* the text of a registered skill changes
EditSkill ==
    \E id \in DocIds, c \in Contents :
        /\ corpusOps < MaxCorpusOps
        /\ corpus[id] \notin {Absent, c}
        /\ corpus' = [corpus EXCEPT ![id] = c]
        /\ corpusOps' = corpusOps + 1
        /\ UNCHANGED <<fs, svc, model, api_key, unit, resp, fits, updates, faultsLeft, threads>>

\* the service process starts again: module import, lines 110-158
Restart ==
    /\ model' \in BOOLEAN
    /\ Reload(fs)
    /\ resp' = AdminResp("start", 0, "")
    /\ UNCHANGED <<corpus, fs, api_key, unit, counters, threads>>

Init ==
    /\ corpus = [id \in DocIds |-> IF id = "D" THEN Absent ELSE "c1"]
    /\ fs = EmptyDisk
    /\ sbert_index = NoIndex
    /\ tfidf_index = NoIndex
    /\ metas = <<>>
    /\ index_meta = NoIndexMeta
    /\ tfidf_vectorizer = NoVectorizer
    /\ tfidf_field_embeddings = NoIndex
    /\ sbert_field_embeddings = NoIndex
    /\ model \in BOOLEAN
    /\ api_key \in {"", "secret"}
    /\ resp = AdminResp("start", 0, "")
    /\ fits = 0 /\ updates = 0 /\ corpusOps = 0 /\ faultsLeft = 0
    /\ inflight = IdleSearch /\ writer = IdleWriter
    /\ call = NoCall /\ ret = <<>>

Next ==
    \/ index_rebuild
    \/ index_update
    \/ Search
    \/ AddSkill
    \/ EditSkill
    \/ Restart

Spec == Init /\ [][Next]_vars

(* FaultSpec: a fixed Skill table, writers that may be aborted by an       *)
(* exception at any file write, and requests in every configuration.       *)
FaultInit ==
    /\ corpus = [id \in DocIds |-> IF id = "D" THEN Absent ELSE "c1"]
    /\ fs = EmptyDisk
    /\ sbert_index = NoIndex
    /\ tfidf_index = NoIndex
    /\ metas = <<>>
    /\ index_meta = NoIndexMeta
    /\ tfidf_vectorizer = NoVectorizer
    /\ tfidf_field_embeddings = NoIndex
    /\ sbert_field_embeddings = NoIndex
    /\ model \in BOOLEAN
    /\ api_key = "secret"
    /\ resp = AdminResp("start", 0, "")
    /\ fits = 0 /\ updates = 0 /\ corpusOps = 0 /\ faultsLeft = MaxCrashes
    /\ inflight = IdleSearch /\ writer = IdleWriter
    /\ call = NoCall /\ ret = <<>>

FaultNext ==
    \/ index_rebuild
    \/ index_update
    \/ ConfiguredSearch
    \/ Restart

FaultSpec == FaultInit /\ [][FaultNext]_vars

(* SearchSpec: one request, with filters and a result size, against an     *)
(* index built over the three documents of the Catalog; the similarity     *)
(* scores put each document first in turn.                                 *)
MaxK == 2

Str(s1, s2, s3) == <<s1, s2, s3>>
OwnerFilters == {<<>>, Str("b", "o", "b"), <<" ", "A", "L", " ">>}
SourceFilters == {<<>>, Str("h", "u", "b")}
TagFilters == {<<>>, Str("v", "i", "d"), <<"V", "I", "D", ",", "a", "i">>}
FlagFilters == {"null", "true", "false"}

FilteredRequests ==
    {MakeReq(Query, k, e, <<>>, NoOverride, t, ow, so, ri) :
        k \in 1..MaxK, e \in {"auto", "tfidf", "hybrid"}, t \in TagFilters,
        ow \in OwnerFilters, so \in SourceFilters, ri \in FlagFilters}

\* scores under which the row at position top is the most similar
Rank(top) == [pos \in Positions |-> IF pos = top THEN One ELSE (One \div 2) - 50 * pos]
Rankings == {Rank(top) : top \in 1..Cardinality(DocIds)}
RankedEnvs ==
    {[encodeOk |-> TRUE, sbert |-> s, tfidf |-> t, field |-> FlatFields]
        : s \in Rankings, t \in Rankings}

FilteredSearch ==
    /\ resp.op = "start"
    /\ \E req \in FilteredRequests, env \in RankedEnvs : Serve(req, env)

WholeCorpus == [id \in DocIds |-> "c1"]

\* the service started on a complete index of the whole corpus
SearchInit ==
    /\ corpus = WholeCorpus
    /\ \E sbertOk \in BOOLEAN :
          fs = build_index(EmptyDisk, load_from_db(WholeCorpus),
                           [sbertOk |-> sbertOk, d |-> TFIDF_MAX_FEATURES, g |-> 1, n |-> 7,
                            tfFieldsOk |-> TRUE, sbFieldsOk |-> TRUE, sbWriteOk |-> TRUE]).fs
    /\ sbert_index = load_index(fs).sbert_index
    /\ tfidf_index = load_index(fs).tfidf_index
    /\ metas = load_index(fs).metas
    /\ index_meta = load_index(fs).index_meta
    /\ tfidf_vectorizer = NoVectorizer
    /\ tfidf_field_embeddings = NoIndex
    /\ sbert_field_embeddings = NoIndex
    /\ model \in BOOLEAN
    /\ api_key = "secret"
    /\ resp = AdminResp("start", 0, "")
    /\ fits = 1 /\ updates = 0 /\ corpusOps = 0 /\ faultsLeft = 0
    /\ inflight = IdleSearch /\ writer = IdleWriter
    /\ call = NoCall /\ ret = <<>>

SearchNext == FilteredSearch

SearchSpec == SearchInit /\ [][SearchNext]_vars

(* ConcSpec: one /search request and one writer (/index/rebuild or         *)
(* /index/update, with the right key) run in two threads of the worker      *)
(* pool.  The search reads the module globals afresh in each of its         *)
(* phases; the writer writes the files one by one, then assigns the four    *)
(* globals, then resets the caches.  D was registered after the index over  *)
(* A and B was built and loaded.                                           *)
SearchPhases == <<"validate", "resolve", "encode", "retrieve", "assemble">>

\* what a phase sees of the four globals line 597 assigns
View == [sbert_index |-> sbert_index, tfidf_index |-> tfidf_index, metas |-> metas,
         index_meta |-> index_meta]

RunPhase(pc, st, req, env) ==
    CASE pc = "validate" -> Validate(st, req)
      [] pc = "resolve" -> ResolveEngine(st, req)
      [] pc = "encode" -> EncodeQuery(st, env)
      [] pc = "retrieve" -> Retrieve(st, req, env)
      [] pc = "assemble" -> Assemble(st, req, env)

NextPhase(pc) ==
    CASE pc = "validate" -> "resolve"
      [] pc = "resolve" -> "encode"
      [] pc = "encode" -> "retrieve"
      [] pc = "retrieve" -> "assemble"
      [] pc = "assemble" -> "done"

\* the request in flight: one of the engines, default configuration
ConcRequests == {req \in Requests : req.engine \in {"auto", "tfidf", "hybrid"}}

\* a /search request arrives
SearchBegin ==
    \E req \in ConcRequests, env \in {e \in Envs : e.encodeOk} :
        /\ inflight.pc = "idle"
        /\ inflight' = [pc |-> "validate", req |-> req, env |-> env, c |-> StartCtx,
                        views |-> <<>>]
        /\ UNCHANGED <<corpus, fs, svc, model, api_key, unit, resp, counters, writer>>

\* the request runs its next phase on the globals as they are now; the
\* HTTPException or the JSON body ends it
SearchStep ==
    /\ inflight.pc \notin {"idle", "done"}
    /\ LET st == RunPhase(inflight.pc, [g |-> Globals, c |-> inflight.c],
                          inflight.req, inflight.env)
           ended == st.c.status # 0
       IN /\ tfidf_vectorizer' = st.g.tfidf_vectorizer
          /\ tfidf_field_embeddings' = st.g.tfidf_field_embeddings
          /\ sbert_field_embeddings' = st.g.sbert_field_embeddings
          /\ inflight' = [inflight EXCEPT
                            !.pc = IF ended THEN "done" ELSE NextPhase(inflight.pc),
                            !.c = st.c,
                            !.views = Append(@, View)]
          /\ resp' = IF ended THEN Response(st.c, inflight.req, inflight.env) ELSE resp
    /\ UNCHANGED <<corpus, fs, sbert_index, tfidf_index, metas, index_meta, model, api_key, unit,
                   counters, writer>>

\* the file writes a writer performs before it reloads
WriterWrites(w) == IF w.op = "rebuild" THEN BuildWrites(w.o.sbertOk) ELSE 2

\* the disk after the first n writes of writer w
WriterDisk(w, n) ==
    IF w.op = "rebuild"
    THEN build_index(w.base, load_from_db(corpus), [w.o EXCEPT !.n = n]).fs
    ELSE update_index(w.base, load_from_db(corpus), [w.o EXCEPT !.n = n]).fs

\* POST /index/rebuild or /index/update is accepted and the writer starts
WriterBegin ==
    \E op \in AdminOps, sbertOk \in BOOLEAN :
        /\ writer.pc = "idle"
        /\ _require_api_key(api_key, api_key) = 0
        /\ IF op = "rebuild" THEN fits < MaxFits
           ELSE updates < MaxUpdates
                /\ update_index(fs, load_from_db(corpus), FullOutcome).path = "append"
        /\ writer' = [pc |-> "write", op |-> op, n |-> 0, base |-> fs,
                      o |-> [sbertOk |-> sbertOk, d |-> TFIDF_MAX_FEATURES, g |-> fits + 1,
                             n |-> 0, tfFieldsOk |-> TRUE, sbFieldsOk |-> TRUE,
                             sbWriteOk |-> TRUE]]
        /\ fits' = IF op = "rebuild" THEN fits + 1 ELSE fits
        /\ updates' = IF op = "update" THEN updates + 1 ELSE updates
        /\ UNCHANGED <<corpus, fs, svc, model, api_key, unit, resp, corpusOps, faultsLeft, inflight>>

\* the writer completes its next file write
WriterWrite ==
    /\ writer.pc = "write"
    /\ fs' = WriterDisk(writer, writer.n + 1)
    /\ writer' = [writer EXCEPT !.n = @ + 1,
                                !.pc = IF writer.n + 1 = WriterWrites(writer) THEN "swap"
                                       ELSE "write"]
    /\ UNCHANGED <<corpus, svc, model, api_key, unit, resp, counters, inflight>>

\* line 597 / 641
WriterSwap ==
    /\ writer.pc = "swap"
    /\ Swap(fs)
    /\ writer' = [writer EXCEPT !.pc = "reset"]
    /\ UNCHANGED <<corpus, fs, tfidf_vectorizer, tfidf_field_embeddings,
                   sbert_field_embeddings, model, api_key, unit, resp, counters, inflight>>

\* lines 598-600 / 642-644, and the response
WriterReset ==
    /\ writer.pc = "reset"
    /\ ResetCaches
    /\ resp' = AdminResp(writer.op, 200, api_key)
    /\ writer' = IdleWriter
    /\ UNCHANGED <<corpus, fs, sbert_index, tfidf_index, metas, index_meta, model,
                   api_key, unit, counters, inflight>>

ConcInit ==
    /\ corpus = WholeCorpus
    /\ \E sbertOk \in BOOLEAN :
          fs = build_index(EmptyDisk, load_from_db([WholeCorpus EXCEPT !["D"] = Absent]),
                           [sbertOk |-> sbertOk, d |-> TFIDF_MAX_FEATURES, g |-> 1, n |-> 7,
                            tfFieldsOk |-> TRUE, sbFieldsOk |-> TRUE, sbWriteOk |-> TRUE]).fs
    /\ sbert_index = load_index(fs).sbert_index
    /\ tfidf_index = load_index(fs).tfidf_index
    /\ metas = load_index(fs).metas
    /\ index_meta = load_index(fs).index_meta
    /\ tfidf_vectorizer = NoVectorizer
    /\ tfidf_field_embeddings = NoIndex
    /\ sbert_field_embeddings = NoIndex
    /\ model \in BOOLEAN
    /\ api_key = "secret"
    /\ resp = AdminResp("start", 0, "")
    /\ fits = 1 /\ updates = 0 /\ corpusOps = 0 /\ faultsLeft = 0
    /\ inflight = IdleSearch /\ writer = IdleWriter
    /\ call = NoCall /\ ret = <<>>

ConcNext ==
    \/ SearchBegin
    \/ SearchStep
    \/ WriterBegin
    \/ WriterWrite
    \/ WriterSwap
    \/ WriterReset

ConcSpec == ConcInit /\ [][ConcNext]_vars

(* ============================ properties ============================== *)
Ids(recs) == [i \in 1..Len(recs) |-> recs[i].id]
IdSet(recs) == {recs[i].id : i \in 1..Len(recs)}
IsPrefix(a, b) == Len(a) <= Len(b) /\ SubSeq(b, 1, Len(a)) = a

\* the index files the persisted index-meta names, as load_index resolves them
NamedSparse(disk) == load_index(disk).tfidf_index
NamedDense(disk) == load_index(disk).sbert_index

\* some search of the requests of Spec, against globals g, returns document id
CanReturn(g, id) ==
    \E req \in Requests, env \in Envs :
        LET r == search(g, req, env)
        IN r.c.status = 200 /\ id \in IdSet(r.c.results)

\* the step is an incremental update that answered 200
AppendStep == updates' = updates + 1 /\ resp'.op = "update" /\ resp'.status = 200

\* C2: an incremental update over an index holding A and B, with D new in the
\* corpus, leaves the vectors and metadata records of A and B as they were,
\* appends D's metadata record and D's sparse and (where the index-meta names
\* a dense index) dense vectors after them, and after the reload some search
\* returns D.
C2_AppendOnly ==
    [][AppendStep =>
        LET new == NewSkills(load_from_db(corpus), IdSet(fs.metas.recs))
        IN /\ fs'.metas.recs = fs.metas.recs \o MetaRecs(new)
           /\ IsPrefix(fs.idx.rows, fs'.idx.rows)
           /\ IsPrefix(fs.tfidfIdx.rows, fs'.tfidfIdx.rows)
           /\ Ids(NamedSparse(fs').rows) = Ids(NamedSparse(fs).rows) \o Ids(new)
           /\ Exists(NamedDense(fs)) =>
                 Ids(NamedDense(fs').rows) = Ids(NamedDense(fs).rows) \o Ids(new)
           /\ \A i \in 1..Len(new) : CanReturn(Globals', new[i].id)]_vars

Aligned(file, recs) == Ids(file.rows) = Ids(recs)

\* C3: in every persisted index state the sparse index, the dense index (when
\* the index-meta names one) and each per-field matrix hold exactly one row
\* per metadata record, row i computed from the document of record i.
C3_ParallelIndexed ==
    fs.imeta.present =>
        /\ Aligned(NamedSparse(fs), fs.metas.recs)
        /\ fs.imeta.sbert_index_path # "null" => Aligned(NamedDense(fs), fs.metas.recs)
        /\ fs.imeta.tfidf_fields_path # "null" => Aligned(fs.tfFields, fs.metas.recs)
        /\ fs.imeta.sbert_fields_path # "null" => Aligned(fs.sbFields, fs.metas.recs)

\* C10: an administrative request is answered 503 when no API key is
\* configured and 401 when the presented key is missing or differs from the
\* configured one, and in both cases neither the disk nor the loaded index
\* nor the caches change.
C10_FailClosed ==
    [][resp'.op \in AdminOps =>
        /\ api_key = "" => resp'.status = 503 /\ UNCHANGED <<fs, svc>>
        /\ (api_key # "" /\ resp'.key # api_key) =>
                resp'.status = 401 /\ UNCHANGED <<fs, svc>>]_vars

\* a rebuild that would have built the first index was refused for its key
C10_Witness ==
    /\ resp.op = "rebuild" /\ resp.status = 401 /\ resp.key = "wrong"
    /\ load_from_db(corpus) # <<>> /\ fs = EmptyDisk /\ metas = <<>>

(* ----------------------- properties of /search -------------------------- *)
SearchResp == resp.op = "search"

\* the request configuration that lines 313-333 accept
ValidEngine(req) == RequestedEngine(req) \in {"auto", "sbert", "tfidf", "hybrid"}
ValidWeight(req) ==
    req.hybrid_weight = <<>> \/ (req.hybrid_weight[1] >= 0 /\ req.hybrid_weight[1] <= One)
ValidFieldWeights(req) == req.field_weights.kind \in {"none", "object"}
ValidConfig(req) == ValidEngine(req) /\ ValidWeight(req) /\ ValidFieldWeights(req)

\* an index is loaded: the metadata list is non-empty and some index is present
IndexLoaded == metas # <<>> /\ (Exists(sbert_index) \/ Exists(tfidf_index))

\* C6 as stated: a request with an engine outside {auto, sbert, tfidf, hybrid},
\* a hybrid_weight outside [0, 1] or a field_weights payload that is not a
\* JSON object is answered 400, in every state of the index.
C6_InvalidAlways400 ==
    (SearchResp /\ ~ValidConfig(resp.req)) => resp.status = 400

\* C6: a request with an invalid engine, hybrid_weight or field_weights is
\* answered 400 whenever an index is loaded, and 503 when none is; either
\* way no lazy cache is loaded and nothing else changes.
C6_InvalidRejected ==
    [][(resp'.op = "search" /\ ~ValidConfig(resp'.req)) =>
          /\ resp'.status = IF IndexLoaded THEN 400 ELSE 503
          /\ resp'.results = <<>>
          /\ UNCHANGED <<fs, svc>>]_vars

\* an out-of-range hybrid_weight was refused with an index loaded
C6_Witness ==
    /\ SearchResp /\ resp.status = 400 /\ IndexLoaded
    /\ ~ValidWeight(resp.req) /\ ValidEngine(resp.req)

\* the artifacts engine e needs: a dense index of the model's dimension and
\* the model (sbert), a sparse index (tfidf), all of them (hybrid)
DenseLoaded == model /\ Exists(sbert_index) /\ sbert_index.d = DenseDim
SparseLoaded == Exists(tfidf_index)
EngineArtifacts(e) ==
    CASE e = "sbert" -> DenseLoaded
      [] e = "tfidf" -> SparseLoaded
      [] e = "hybrid" -> DenseLoaded /\ SparseLoaded
      [] OTHER -> TRUE

\* C7: an explicit engine=sbert, tfidf or hybrid whose artifacts are absent
\* from the loaded index (also when the index-meta file is missing) is
\* answered 503, never 500, model.encode working.
C7_AbsentEngine503 ==
    (SearchResp /\ ValidConfig(resp.req) /\ resp.req.engine \in {"sbert", "tfidf", "hybrid"}
        /\ resp.env.encodeOk /\ ~EngineArtifacts(resp.req.engine))
    => resp.status = 503

AutoResp == SearchResp /\ ValidConfig(resp.req) /\ RequestedEngine(resp.req) = "auto"

\* the engine the claim prescribes for engine=auto
AutoEngine ==
    IF model /\ Exists(sbert_index) THEN "sbert"
    ELSE IF Exists(tfidf_index) THEN "tfidf"
    ELSE "null"

SparseUsable ==
    /\ metas # <<>> /\ Exists(tfidf_index)
    /\ load_tfidf_vectorizer(Globals).tfidf_vectorizer.d = tfidf_index.d

\* C9: with engine=auto a failure of the embedding provider (model not
\* loaded, or model.encode raising) never fails the request while the sparse
\* engine is usable: the request is served by the sparse engine; with an
\* explicit engine=sbert or hybrid the same failure fails the request.
C9_AutoDegrades ==
    /\ (AutoResp /\ SparseUsable /\ (~model \/ ~resp.env.encodeOk))
            => (resp.status = 200 /\ resp.engine = "tfidf")
    /\ (SearchResp /\ resp.req.engine \in {"sbert", "hybrid"} /\ (~model \/ ~resp.env.encodeOk))
            => resp.status # 200

(* ------------------- result size and metadata filters ------------------ *)
\* C4: a successful search returns at most k results.
C4_AtMostK ==
    (SearchResp /\ resp.status = 200) => Len(resp.results) <= resp.req.k

SeqSet(seq) == {seq[i] : i \in 1..Len(seq)}

\* C5 as stated: every result carries every requested tag, and has exactly
\* the requested owner, source and requires_internet flag.
C5_FiltersExact ==
    (SearchResp /\ resp.status = 200) =>
        \A i \in 1..Len(resp.results) :
            LET a == Catalog[resp.results[i].id]
                req == resp.req
            IN /\ SeqSet(TagList(req)) \subseteq SeqSet(a.tags)
               /\ req.owner # <<>> => a.owner = req.owner
               /\ req.source # <<>> => a.source = req.source
               /\ req.requires_internet # "null" =>
                     (Truthy(a.requires_internet) <=> req.requires_internet = "true")

Norm(str) == Lower(Strip(str))

\* C5: every result matches the filters after both sides are trimmed and
\* lower-cased: its tags include every non-blank requested tag, its owner
\* and source equal a non-blank requested owner and source, and its
\* requires_internet flag (absent counting as false) equals the requested
\* one, however the documents that do not match were scored.
C5_FiltersNormalised ==
    (SearchResp /\ resp.status = 200) =>
        \A i \in 1..Len(resp.results) :
            LET a == Catalog[resp.results[i].id]
                req == resp.req
                wanted == {Norm(t) : t \in SeqSet(TagList(req))} \ {<<>>}
            IN /\ wanted \subseteq {Norm(t) : t \in SeqSet(a.tags)}
               /\ Norm(req.owner) # <<>> => Norm(a.owner) = Norm(req.owner)
               /\ Norm(req.source) # <<>> => Norm(a.source) = Norm(req.source)
               /\ req.requires_internet # "null" =>
                     (Truthy(a.requires_internet) <=> req.requires_internet = "true")

\* the most similar document has another owner than the one asked for and is
\* left out, while a document whose owner differs only in case is returned
C5_Witness ==
    /\ SearchResp /\ resp.status = 200 /\ resp.engine = "tfidf"
    /\ resp.req.owner = <<"b", "o", "b">>
    /\ resp.env.tfidf[3] = One /\ metas[3].id = "D"
    /\ \E i \in 1..Len(resp.results) : resp.results[i].id = "A"
    /\ \A i \in 1..Len(resp.results) : resp.results[i].id # "D"

(* --------------------------- concurrent readers ------------------------ *)
\* the generation of the vectorizer that produced the rows of a sparse index
RowGens(ix) == {ix.rows[i].vz : i \in 1..Len(ix.rows)}

\* C1: whatever the interleaving with a rebuild or an update, a search that
\* ran to its end used one index: the retrieval and the assembly of the
\* results read the same sbert_index, tfidf_index, metas and index_meta, the
\* vectorizer that encoded the query is the one that produced the rows of the
\* sparse index searched, and the per-field matrices used have one row per
\* metadata record.
C1_OneGeneration ==
    (inflight.pc = "done" /\ Len(inflight.views) = Len(SearchPhases)) =>
        LET retrieved == inflight.views[4]
            assembled == inflight.views[5]
        IN /\ retrieved = assembled
           /\ inflight.c.tfidf_emb.gen # 0 =>
                 RowGens(retrieved.tfidf_index) = {inflight.c.tfidf_emb.gen}
           /\ Exists(tfidf_field_embeddings) =>
                 Aligned(tfidf_field_embeddings, assembled.metas)

(* ---------------------- failures of the writers ----------------------- *)
\* the index-meta is the last file a build writes: its presence marks a
\* complete previous index
CompleteIndex(disk) == disk.imeta.present /\ disk.metas.present

\* an administrative request that ran the writer and was answered 500
WriterFailed ==
    /\ resp'.op \in AdminOps
    /\ resp'.status = 500
    /\ faultsLeft' < faultsLeft

\* C11: a build or update that fails at one of its writes leaves the
\* persisted artifacts, and the state load_index reads from them, as the
\* complete previous index was: nothing of the failed run is on disk.
C11_NoPartialPublish ==
    [][(WriterFailed /\ CompleteIndex(fs))
          => (fs' = fs /\ load_index(fs') = load_index(fs))]_vars

(* LossSpec: the writers over a store from which an artifact may have been *)
(* removed (a file deleted or moved away between two runs). update_index   *)
(* tests for exactly these files with os.path.exists (lines 319, 337).      *)
Artifacts == {"metas", "vec", "idx", "tfidfIdx"}

\* the store without artifact a
Without(disk, a) ==
    [disk EXCEPT ![a] = IF a = "metas" THEN NoMetaFile
                        ELSE IF a = "vec" THEN NoVectorizer
                        ELSE NoIndex]

\* a persisted artifact disappears from the store
LoseArtifact ==
    \E a \in Artifacts :
        /\ faultsLeft > 0
        /\ fs[a] # Without(fs, a)[a]
        /\ fs' = Without(fs, a)
        /\ faultsLeft' = faultsLeft - 1
        /\ UNCHANGED <<corpus, svc, model, api_key, unit, resp, fits, updates, corpusOps, threads>>

LossNext ==
    \/ index_rebuild
    \/ index_update
    \/ AddSkill
    \/ LoseArtifact

LossSpec == FaultInit /\ [][LossNext]_vars

\* the artifacts update_index needs for the incremental path (lines 319, 337)
RequiredMissing(disk) ==
    ~disk.metas.present \/ ~Exists(disk.vec) \/ ~Exists(disk.idx)

\* the persisted index holds every document of the Skill table c
HoldsCorpus(disk, c) ==
    /\ disk.metas.present
    /\ disk.metas.recs = MetaRecs(load_from_db(c))
    /\ Exists(disk.vec)
    /\ Aligned(NamedSparse(disk), disk.metas.recs)

\* POST /index/update ran update_index to its end and answered 200
UpdateSucceeded ==
    /\ resp'.op = "update"
    /\ resp'.status = 200
    /\ corpus' = corpus
    /\ faultsLeft' = faultsLeft

\* C12: whenever the metadata list, the serialized vectorizer or skills.idx
\* is missing, update_index runs a full build_index, whatever the Skill
\* table contains, and afterwards the index holds the whole table.
C12_FallbackBuild ==
    [][(UpdateSucceeded /\ RequiredMissing(fs))
          => (fits' = fits + 1 /\ HoldsCorpus(fs', corpus))]_vars

(* ------------------------- incremental updates ------------------------ *)
\* every id of the Skill table c is in the stored metadata list
NoNewIds(disk, c) ==
    disk.metas.present /\ NewSkills(load_from_db(c), IdSet(disk.metas.recs)) = <<>>

\* C13: POST /index/update over a Skill table that holds no id absent from
\* the stored metadata list changes no persisted artifact, also when the
\* text of a stored document has changed.
C13_NoOp ==
    [][(resp'.op = "update" /\ corpus' = corpus /\ NoNewIds(fs, corpus)) => fs' = fs]_vars

\* an update answered 200 after the second build (so it was no fallback) and
\* appended nothing: the Skill table held no new id
C13_Witness ==
    /\ resp.op = "update" /\ resp.status = 200
    /\ fits = 2 /\ updates = 0
    /\ NoNewIds(fs, corpus)

\* every row of the sparse index the index-meta names was produced by the
\* vectorizer now in the store
SparseByStoredVectorizer(disk) == RowGens(NamedSparse(disk)) \subseteq {disk.vec.gen}

FieldSet == {FIELD_NAMES[i] : i \in 1..Len(FIELD_NAMES)}

\* weights a caller may give a field: negative, zero, and positive ones
WeightValues == {0 - (One \div 2), 0, One \div 3, 700, One}

\* a weights dict names any of the fields
WeightInputs == UNION {[S -> WeightValues] : S \in SUBSET FieldSet}

WeightCalls ==
    {[fn |-> fn, arg |-> w] :
        fn \in {"build_index._normalize_field_weights", "service._normalize_field_weights"},
        w \in WeightInputs}

\* the service is not running: nothing but the call changes
UnitFrame ==
    UNCHANGED <<corpus, fs, svc, model, api_key, resp, counters, threads, call>>

Return(fn, value) ==
    /\ call.fn = fn
    /\ ret = <<>>
    /\ ret' = <<value>>
    /\ UnitFrame

BuilderNormalizeFieldWeights ==
    /\ call.fn = "build_index._normalize_field_weights"
    /\ Return("build_index._normalize_field_weights", builder_normalize_field_weights(call.arg))

ServiceNormalizeFieldWeights ==
    /\ call.fn = "service._normalize_field_weights"
    /\ Return("service._normalize_field_weights", _normalize_field_weights(call.arg))

(* ---------------------------- field fusion ----------------------------- *)
\* A float is a fixed-point integer (One stands for 1.0) or NaN, the
\* non-finite result of a division by zero (numpy: nan or inf, and nan once
\* the row is divided by its norm).
NaN == 0 - (One * One * One)

\* numpy a / b
FDiv(a, b) == IF a = NaN \/ b = 0 THEN NaN ELSE a \div b

\* the square root of a sum of squares of fixed-point numbers
ISqrt(n) == CHOOSE r \in 0..(2 * One) : r * r <= n /\ n < (r + 1) * (r + 1)

\* _normalize_rows: each row divided by its L2 norm, a zero norm replaced by 1
_normalize_rows(embeddings) ==
    [i \in 1..Len(embeddings) |->
        LET row == embeddings[i]
        IN IF \E j \in 1..Len(row) : row[j] = NaN
           THEN [j \in 1..Len(row) |-> NaN]
           ELSE LET norm == ISqrt(SumSeq([j \in 1..Len(row) |-> row[j] * row[j]]))
                    norms == IF norm = 0 THEN One ELSE norm
                IN [j \in 1..Len(row) |-> (row[j] * One) \div norms]]

\* no matrix: the None _combine_field_embeddings returns at line 131
NoVectors == [none |-> TRUE, rows |-> <<>>]

\* (text or '').strip() is not empty
HasText(text) == Strip(text) # <<>>

\* the fields the loop of lines 115-129 does not skip
WeightedFields(field_embeddings, field_weights) ==
    SelectSeq(FIELD_NAMES,
              LAMBDA f : /\ field_embeddings[f] # <<>>
                         /\ f \in DOMAIN field_weights
                         /\ field_weights[f] > 0)

\* _combine_field_embeddings without the replacement of line 132
\* (weight_sums[weight_sums == 0] = 1.0)
_combine_field_embeddings_unguarded(field_embeddings, field_texts, field_weights) ==
    LET used == WeightedFields(field_embeddings, field_weights)
        mask(f, i) == IF HasText(field_texts[f][i]) THEN 1 ELSE 0
        first == field_embeddings[used[1]]
        total == [i \in 1..Len(first) |-> [j \in 1..Len(first[i]) |->
                    SumSeq([k \in 1..Len(used) |->
                        field_embeddings[used[k]][i][j] * field_weights[used[k]] * mask(used[k], i)])]]
        weight_sums == [i \in 1..Len(first) |->
                    SumSeq([k \in 1..Len(used) |-> field_weights[used[k]] * mask(used[k], i)])]
        combined == [i \in 1..Len(first) |-> [j \in 1..Len(first[i]) |->
                        FDiv(total[i][j], weight_sums[i])]]
    IN IF used = <<>> THEN NoVectors
       ELSE [none |-> FALSE, rows |-> _normalize_rows(combined)]

\* _combine_field_embeddings: field_embeddings maps a field to its matrix
\* (<<>> for None), field_texts to the texts of the documents, field_weights
\* some of the fields to a weight
_combine_field_embeddings(field_embeddings, field_texts, field_weights) ==
    LET used == WeightedFields(field_embeddings, field_weights)
        mask(f, i) == IF HasText(field_texts[f][i]) THEN 1 ELSE 0
        first == field_embeddings[used[1]]
        total == [i \in 1..Len(first) |-> [j \in 1..Len(first[i]) |->
                    SumSeq([k \in 1..Len(used) |->
                        field_embeddings[used[k]][i][j] * field_weights[used[k]] * mask(used[k], i)])]]
        sums == [i \in 1..Len(first) |->
                    SumSeq([k \in 1..Len(used) |-> field_weights[used[k]] * mask(used[k], i)])]
        weight_sums == [i \in 1..Len(first) |-> IF sums[i] = 0 THEN One ELSE sums[i]]
        combined == [i \in 1..Len(first) |-> [j \in 1..Len(first[i]) |->
                        FDiv(total[i][j], weight_sums[i])]]
    IN IF used = <<>> THEN NoVectors
       ELSE [none |-> FALSE, rows |-> _normalize_rows(combined)]

MaxDocs == 2        \* documents in one call of _combine_field_embeddings

\* the unit vector model.encode returns for a field (normalize_embeddings=True)
FieldVector ==
    [name |-> <<One, 0>>, description |-> <<0, One>>, excerpt |-> <<720, 960>>]

Texts == {<<>>, <<" ">>, <<"x">>}

\* the first document has any texts; the others have all fields or none
TextInputs ==
    {[f \in FieldSet |-> [i \in 1..MaxDocs |-> IF i = 1 THEN t1[f] ELSE rest]] :
        t1 \in [FieldSet -> Texts], rest \in {<<>>, <<"x">>}}

\* which fields were encoded: all, description only, none
EmbeddingInputs ==
    {[f \in FieldSet |-> IF f \in S THEN [i \in 1..MaxDocs |-> FieldVector[f]] ELSE <<>>] :
        S \in {FieldSet, {"description"}, {}}}

\* weights as build_index passes them, and degenerate ones
CombineWeights ==
    {builder_normalize_field_weights(DEFAULT_FIELD_WEIGHTS),
     [f \in FieldSet |-> IF f = "name" THEN One ELSE 0],
     [f \in FieldSet |-> 0],
     [f \in {"excerpt"} |-> One]}

CombineCalls ==
    {[fn |-> "_combine_field_embeddings",
      arg |-> [field_embeddings |-> e, field_texts |-> t, field_weights |-> w]] :
        e \in EmbeddingInputs, t \in TextInputs, w \in CombineWeights}

CombineFieldEmbeddings ==
    /\ call.fn = "_combine_field_embeddings"
    /\ Return("_combine_field_embeddings",
              _combine_field_embeddings(call.arg.field_embeddings, call.arg.field_texts,
                                        call.arg.field_weights))

(* ------------------------- query-side helpers -------------------------- *)
MaxTokens == 7      \* words in a query

RECURSIVE Words(_, _)
\* n words, each followed by the separator sep
Words(n, sep) == IF n = 0 THEN <<>> ELSE <<"w">> \o sep \o Words(n - 1, sep)

\* queries of 0..MaxTokens words, separated by one or two blanks, with or
\* without a leading blank
AlphaQueries ==
    {lead \o Words(n, sep) :
        n \in 0..MaxTokens, sep \in {<<" ">>, <<" ", " ">>}, lead \in {<<>>, <<" ">>}}

AlphaCalls == {[fn |-> "_select_hybrid_alpha", arg |-> q] : q \in AlphaQueries}

SelectHybridAlpha ==
    /\ call.fn = "_select_hybrid_alpha"
    /\ Return("_select_hybrid_alpha", _select_hybrid_alpha(call.arg))

\* queries against the names of the Catalog ("v e", "s t", "V-E")
MatchQueries ==
    {<<>>, <<" ">>, <<"v", " ", "e">>, <<"V", " ", "E">>, <<"v", "-", "e">>,
     <<" ", "V", "-", "E", " ">>, <<"v", "e">>, <<"v", " ", " ", "e">>,
     <<"-", "v", " ", "e">>, <<"v", " ", "e", "-">>, <<"s", " ", "t">>,
     <<"S", "-", "T">>, <<"s", " ", "t", " ", "x">>, <<"v">>}

MatchCalls ==
    {[fn |-> "_detect_exact_match", arg |-> [query |-> q, id |-> id]] :
        q \in MatchQueries, id \in DocIds}

DetectExactMatch ==
    /\ call.fn = "_detect_exact_match"
    /\ Return("_detect_exact_match", _detect_exact_match(call.arg.query, call.arg.id))

(* the hybrid branch of search (lines 376-427) on an index of five         *)
(* documents, more than the 4k candidates each sub-engine is asked for     *)
(* when k = 1                                                              *)
HybridIds == <<"A", "B", "D", "E", "F">>
HybridItems == [i \in 1..Len(HybridIds) |-> [id |-> HybridIds[i], c |-> "c1"]]

\* the globals the branch reads, after a complete hybrid build
HybridGlobals ==
    [sbert_index |-> [d |-> DenseDim, rows |-> DenseRows(HybridItems)],
     tfidf_index |-> [d |-> TFIDF_MAX_FEATURES, rows |-> SparseRows(HybridItems, 1)],
     metas |-> MetaRecs(HybridItems)]

\* inner products of the query with the rows: the dense ones positive,
\* negative or of both signs; the sparse ones never negative
SbertScores ==
    {[pos \in 1..Len(HybridIds) |-> base - 100 * pos] : base \in {700, 0, 300}}
TfidfScores ==
    {[pos \in 1..Len(HybridIds) |-> 100 * pos],
     [pos \in 1..Len(HybridIds) |-> 600 - 100 * pos],
     [pos \in 1..Len(HybridIds) |-> 300]}

\* queries of two, three and five words
HybridQueries == {Query, Words(3, <<" ">>), Words(5, <<" ">>)}

\* k up to MaxK, and k large enough for `top` to hold every candidate
HybridCalls ==
    {[fn |-> "search: hybrid",
      arg |-> [q |-> q, k |-> k, weight |-> w, sbert |-> s, tfidf |-> t]] :
        q \in HybridQueries, k \in (1..MaxK) \cup {Len(HybridIds)},
        w \in {0, One \div 4, DEFAULT_HYBRID_NLP_WEIGHT, One},
        s \in SbertScores, t \in TfidfScores}

HybridSearch ==
    /\ call.fn = "search: hybrid"
    /\ LET g == HybridGlobals
           c == [StartCtx EXCEPT !.engine = "hybrid", !.weight = call.arg.weight,
                                 !.sbert_emb = [d |-> DenseDim, gen |-> 0],
                                 !.tfidf_emb = [d |-> TFIDF_MAX_FEATURES, gen |-> 1]]
           req == MakeReq(call.arg.q, call.arg.k, "hybrid", <<call.arg.weight>>, NoOverride,
                          <<>>, <<>>, <<>>, "null")
           env == [encodeOk |-> TRUE, sbert |-> call.arg.sbert, tfidf |-> call.arg.tfidf,
                   field |-> <<>>]
       IN Return("search: hybrid",
                 [raised |-> HybridCandidates(g, c, req, env).raised,
                  top |-> HybridCandidates(g, c, req, env).list,
                  score_map |-> score_map(g, req, env)])

\* the calls of UnitSpec
(* The body of the loop over the skills in build_index (lines 166-202) and *)
(* in update_index (lines 349-379): the per-field texts, the combined text *)
(* and the metadata record of one skill.  <<>> stands for None and for ''. *)
\* _coalesce_text of a string or None
_coalesce_text(value) == Strip(value)

RECURSIVE JoinPresent(_)
\* ' '.join(filter(None, parts))
JoinPresent(parts) ==
    IF parts = <<>> THEN <<>>
    ELSE IF Head(parts) = <<>> THEN JoinPresent(Tail(parts))
    ELSE IF JoinPresent(Tail(parts)) = <<>> THEN Head(parts)
    ELSE Head(parts) \o <<" ">> \o JoinPresent(Tail(parts))

\* (the keys of the metadata record that hold no text are copied alike by both)
build_index_item(item) ==
    LET name == JoinPresent(<<_coalesce_text(item.name), _coalesce_text(item.name_zh)>>)
        description == JoinPresent(<<_coalesce_text(item.description),
                                     _coalesce_text(item.description_zh)>>)
        excerpt == _coalesce_text(item.excerpt)
    IN [name |-> name, description |-> description, excerpt |-> excerpt,
        text |-> JoinPresent(<<name, description, excerpt>>),
        meta |-> [name |-> item.name, name_zh |-> item.name_zh,
                  description |-> item.description,
                  description_zh |-> item.description_zh, excerpt |-> item.excerpt]]

update_index_item(item) ==
    LET name == _coalesce_text(item.name)
        description == _coalesce_text(item.description)
        excerpt == _coalesce_text(item.excerpt)
    IN [name |-> name, description |-> description, excerpt |-> excerpt,
        text |-> JoinPresent(<<name, description, excerpt>>),
        \* the record has no name_zh and no description_zh key: both read as None
        meta |-> [name |-> item.name, name_zh |-> <<>>,
                  description |-> item.description,
                  description_zh |-> <<>>, excerpt |-> item.excerpt]]

\* rows of load_from_db: with and without the secondary fields, with
\* surrounding blanks
Items ==
    [name : {<<"v">>, <<" ", "v", " ">>}, name_zh : {<<>>, <<"z">>},
     description : {<<>>, <<"d">>}, description_zh : {<<>>, <<"y">>},
     excerpt : {<<>>, <<"x", " ">>}]

ItemCalls == {[fn |-> f, arg |-> item] : f \in {"build_index: item", "update_index: item"},
                                          item \in Items}

BuildIndexItem ==
    /\ call.fn = "build_index: item" /\ ret = <<>>
    /\ ret' = <<build_index_item(call.arg)>>
    /\ UNCHANGED <<corpus, fs, svc, model, api_key, resp, counters, threads, call>>

UpdateIndexItem ==
    /\ call.fn = "update_index: item" /\ ret = <<>>
    /\ ret' = <<update_index_item(call.arg)>>
    /\ UNCHANGED <<corpus, fs, svc, model, api_key, resp, counters, threads, call>>

(* POST /generate/{skill_name} of the video skills service               *)
(* (src/skills/service/app.py).  a.skill_dir, a.wrapper: the directory and *)
(* wrapper.py exist; a.skillshub: what requests.get of line 51 does:       *)
(* "unreachable" (it raises), or the status code of the response;          *)
(* a.body_ok: resp.json() and the printing of the candidates do not raise; *)
(* a.allow_exec: os.environ.get('SKILLSHUB_ALLOW_EXEC') ("unset": None);   *)
(* a.exec_ok: the wrapper exits with 0 and writes the video.               *)
(* The value: the status of the response, and whether subprocess.run ran.  *)
generate(a) ==
    LET blocked(code) == [status |-> code, ran |-> FALSE]
        run == [status |-> IF a.exec_ok THEN 200 ELSE 500, ran |-> TRUE]
    IN IF ~a.skill_dir THEN blocked(404)
       ELSE IF ~a.wrapper THEN blocked(500)
       ELSE IF a.skillshub = "unreachable" THEN blocked(503)
       ELSE IF a.skillshub = "200"
            THEN IF ~a.body_ok THEN blocked(503)
                 ELSE IF a.allow_exec # "1" THEN blocked(412)
                 ELSE run
       ELSE run

GenerateCalls ==
    {[fn |-> "generate", arg |-> a] :
        a \in [skill_dir : BOOLEAN, wrapper : BOOLEAN,
               skillshub : {"unreachable", "200", "400", "500", "503"},
               body_ok : BOOLEAN, allow_exec : {"unset", "0", "1"}, exec_ok : BOOLEAN]}

Generate ==
    /\ call.fn = "generate" /\ ret = <<>>
    /\ ret' = <<generate(call.arg)>>
    /\ UNCHANGED <<corpus, fs, svc, model, api_key, resp, counters, threads, call>>

Calls ==
    WeightCalls \cup CombineCalls \cup AlphaCalls \cup MatchCalls \cup HybridCalls
        \cup ItemCalls \cup GenerateCalls

UnitInit ==
    /\ corpus = [id \in DocIds |-> IF id = "D" THEN Absent ELSE "c1"]
    /\ fs = EmptyDisk
    /\ sbert_index = NoIndex
    /\ tfidf_index = NoIndex
    /\ metas = <<>>
    /\ index_meta = NoIndexMeta
    /\ tfidf_vectorizer = NoVectorizer
    /\ tfidf_field_embeddings = NoIndex
    /\ sbert_field_embeddings = NoIndex
    /\ model = FALSE
    /\ api_key = ""
    /\ resp = AdminResp("start", 0, "")
    /\ fits = 0 /\ updates = 0 /\ corpusOps = 0 /\ faultsLeft = 0
    /\ inflight = IdleSearch /\ writer = IdleWriter
    /\ call \in Calls
    /\ ret = <<>>

UnitNext ==
    \/ BuilderNormalizeFieldWeights
    \/ ServiceNormalizeFieldWeights
    \/ CombineFieldEmbeddings
    \/ SelectHybridAlpha
    \/ DetectExactMatch
    \/ HybridSearch
    \/ BuildIndexItem
    \/ UpdateIndexItem
    \/ Generate

UnitSpec == UnitInit /\ [][UnitNext]_vars

(* ------------------------ field-weight normalisation ------------------ *)
WeightFns == {"build_index._normalize_field_weights", "service._normalize_field_weights"}

\* one of the two _normalize_field_weights has returned
WeightsReturned == call.fn \in WeightFns /\ ret # <<>>

EqualSplit == [f \in FieldSet |-> One \div Len(FIELD_NAMES)]

\* the weights sum to 1, up to the rounding of one division per field
SumsToOne(w) ==
    LET total == SumSeq([i \in 1..Len(FIELD_NAMES) |-> w[FIELD_NAMES[i]]])
    IN total <= One /\ One - total < Len(FIELD_NAMES)

\* the value each function works with for a field the caller left out: the
\* builder takes 0.0, the service the default weight of the field
Given(fn, w) ==
    [f \in FieldSet |->
        IF f \in DOMAIN w THEN w[f]
        ELSE IF fn = "service._normalize_field_weights" THEN DEFAULT_FIELD_WEIGHTS[f]
        ELSE 0]

CombineReturned == call.fn = "_combine_field_embeddings" /\ ret # <<>>

\* field f contributes to document i: it was encoded, has a positive weight,
\* and the document has text in it
Usable(arg, f, i) ==
    /\ arg.field_embeddings[f] # <<>>
    /\ f \in DOMAIN arg.field_weights /\ arg.field_weights[f] > 0
    /\ HasText(arg.field_texts[f][i])

NoUsableField(arg, i) == \A f \in FieldSet : ~Usable(arg, f, i)

IsNaNRow(row) == \E j \in 1..Len(row) : row[j] = NaN
IsZeroRow(row) == \A j \in 1..Len(row) : row[j] = 0

\* C16 (as claimed): for a document none of whose fields is usable the
\* function returns no vector for that document, and never a NaN row.
C16_NoVectorForUnusable ==
    CombineReturned =>
        \A i \in 1..MaxDocs :
            NoUsableField(call.arg, i) => (ret[1].none \/ Len(ret[1].rows) < i)

\* C16 (amended): the function returns None exactly when no field has both
\* an embedding and a positive weight; otherwise it returns one row per
\* document, none of them NaN, and the row of a document none of whose
\* fields is usable is the zero vector, every other row a unit vector.
C16_ZeroRowForUnusable ==
    CombineReturned =>
        LET arg == call.arg
            out == ret[1]
            weighted == \E f \in FieldSet :
                            /\ arg.field_embeddings[f] # <<>>
                            /\ f \in DOMAIN arg.field_weights /\ arg.field_weights[f] > 0
        IN /\ out.none <=> ~weighted
           /\ ~out.none =>
                /\ Len(out.rows) = MaxDocs
                /\ \A i \in 1..MaxDocs :
                      /\ ~IsNaNRow(out.rows[i])
                      /\ NoUsableField(arg, i) <=> IsZeroRow(out.rows[i])
                      /\ ~NoUsableField(arg, i) =>
                            ISqrt(SumSeq([j \in 1..Len(out.rows[i]) |->
                                            out.rows[i][j] * out.rows[i][j]])) \in (One - 2)..One

\* all fields encoded and weighted, the first document without any text and
\* the second with text: a matrix came back whose first row is zero
C16_Witness ==
    /\ CombineReturned
    /\ \A f \in FieldSet : ~HasText(call.arg.field_texts[f][1])
    /\ \A f \in FieldSet : Usable(call.arg, f, MaxDocs)
    /\ ~ret[1].none
    /\ IsZeroRow(ret[1].rows[1]) /\ ~IsZeroRow(ret[1].rows[MaxDocs])

(* --------------------------- adaptive blending ------------------------ *)
AlphaReturned == call.fn = "_select_hybrid_alpha" /\ ret # <<>>

\* the whitespace-separated words of a query
TokenCount(q) == Len(Tokens(q))

\* C17: the blend factor is non-decreasing in the token count of the query,
\* is the low bound 0.55 for every count up to 2 and the high bound 0.75 for
\* every count from 5, and lies on the straight line between (2, 0.55) and
\* (5, 0.75) for the counts 3 and 4.
C17_AlphaMonotone ==
    AlphaReturned =>
        LET n == TokenCount(call.arg)
            alpha == ret[1]
            span == DEFAULT_HYBRID_ALPHA_LONG_QUERY - DEFAULT_HYBRID_ALPHA_SHORT_QUERY
        IN /\ n <= 2 => alpha = DEFAULT_HYBRID_ALPHA_SHORT_QUERY
           /\ n >= 5 => alpha = DEFAULT_HYBRID_ALPHA_LONG_QUERY
           /\ n \in 3..4 => 3 * (alpha - DEFAULT_HYBRID_ALPHA_SHORT_QUERY) = (n - 2) * span
           /\ \A q \in AlphaQueries :
                 TokenCount(q) >= n => _select_hybrid_alpha(q) >= alpha

\* a query of three words got a factor strictly between the bounds
C17_Witness ==
    /\ AlphaReturned
    /\ TokenCount(call.arg) = 3
    /\ ret[1] > DEFAULT_HYBRID_ALPHA_SHORT_QUERY
    /\ ret[1] < DEFAULT_HYBRID_ALPHA_LONG_QUERY

(* --------------------------- exact-match detection -------------------- *)
MatchReturned == call.fn = "_detect_exact_match" /\ ret # <<>>

\* trimmed, lower-cased, every hyphen replaced by a space
Canonical(str) == ReplaceHyphen(Lower(Strip(str)))

\* C18: _detect_exact_match is true exactly when the query is not blank and
\* the trimmed, lower-cased query and document name are equal once every
\* hyphen is replaced by a space.
C18_ExactMatch ==
    MatchReturned =>
        (ret[1] <=> /\ Strip(call.arg.query) # <<>>
                    /\ Canonical(call.arg.query) = Canonical(Catalog[call.arg.id].name))

\* the query "v-e" matched the document whose name is "v e"
C18_Witness ==
    /\ MatchReturned
    /\ ret[1]
    /\ call.arg.query = <<"v", "-", "e">>
    /\ Catalog[call.arg.id].name = <<"v", " ", "e">>

(* ------------------------------ hybrid fusion ------------------------- *)
HybridReturned == call.fn = "search: hybrid" /\ ret # <<>>

\* the rows a sub-engine returned for the call
Retrieved(ix, score, k) ==
    LET asked == MinOf(Len(HybridGlobals.metas), MaxOf(k, k * 4))
        res == IndexSearch(ix, score, asked)
    IN {res[i].pos : i \in 1..Len(res)}

\* C19: every document one of the sub-engines retrieved is in the combined
\* candidate list, and for a document only one of them retrieved the
\* normalized score of the other that enters its combined score is 0,
\* whatever the raw scores, negative inner products included.
C19_MissingSlotZero ==
    HybridReturned =>
        LET keys == ret[1].score_map.keys
            bySbert == Retrieved(HybridGlobals.sbert_index, call.arg.sbert, call.arg.k)
            byTfidf == Retrieved(HybridGlobals.tfidf_index, call.arg.tfidf, call.arg.k)
        IN /\ ~ret[1].raised
           /\ {keys[i] : i \in 1..Len(keys)} = bySbert \cup byTfidf
           /\ \A i \in 1..Len(keys) :
                 /\ keys[i] \notin bySbert => ret[1].score_map.sbert_norm[i] = 0
                 /\ keys[i] \notin byTfidf => ret[1].score_map.tfidf_norm[i] = 0

(* RoundTripSpec: the index is built from a corpus file of three documents *)
(* that have a name and nothing else, loaded, and searched by the sparse   *)
(* engine; the similarity scores are those of the texts.                   *)
RoundTripCorpus ==
    <<[id |-> "RA", c |-> "c1"], [id |-> "RB", c |-> "c1"], [id |-> "RC", c |-> "c1"]>>

\* the terms TfidfVectorizer finds in a text: lower-cased words of two or
\* more characters (a hyphen separates words)
Terms(text) == SelectSeq(Tokens(ReplaceHyphen(Lower(text))), LAMBDA t : Len(t) >= 2)

\* the vocabulary fitted on the corpus
Vocabulary ==
    UNION {SeqSet(Terms(FileCatalog[RoundTripCorpus[i].id].name)) : i \in 1..Len(RoundTripCorpus)}

\* the inner product of the normalized TF-IDF vectors (words and pairs of
\* adjacent words) of a query and a text: 1 for the same terms in the same
\* order, 0 without a common term, strictly between otherwise
Similarity(q, text) ==
    LET qt == SelectSeq(Terms(q), LAMBDA t : t \in Vocabulary)
        dt == SelectSeq(Terms(text), LAMBDA t : t \in Vocabulary)
    IN IF qt = <<>> \/ dt = <<>> THEN 0
       ELSE IF qt = dt THEN One
       ELSE IF SeqSet(qt) \cap SeqSet(dt) = {} THEN 0
       ELSE One \div 2

\* the scores the sparse index and the per-field matrices yield for query q
TextEnv(q) ==
    LET sim(pos) == IF pos <= Len(RoundTripCorpus)
                    THEN Similarity(q, FileCatalog[RoundTripCorpus[pos].id].name) ELSE 0
    IN [encodeOk |-> TRUE,
        sbert |-> [pos \in Positions |-> 0],
        tfidf |-> [pos \in Positions |-> sim(pos)],
        field |-> [pos \in Positions |-> [name |-> sim(pos), description |-> 0, excerpt |-> 0]]]

VideoEditor == <<"v", "i", "d", "e", "o", " ", "e", "d", "i", "t", "o", "r">>

RoundTripQueries ==
    {VideoEditor,
     <<"V", "i", "d", "e", "o", "-", "E", "d", "i", "t", "o", "r">>,
     <<"v", "i", "d", "e", "o">>,
     <<"t", "o", "o", "l">>,
     <<"e", "d", "i", "t", "o", "r", " ", "v", "i", "d", "e", "o">>}

RoundTripRequests ==
    {MakeReq(q, k, e, <<>>, NoOverride, <<>>, <<>>, <<>>, "null") :
        q \in RoundTripQueries, k \in {1, DefaultK}, e \in {"tfidf", "sparse"}}

\* POST /index/rebuild while the corpus file exists (build_index.py 149-154)
RebuildFromFile ==
    \/ Refuse("rebuild")
    \/ \E x_api_key \in ApiKeys, o \in BuildOutcomes :
            Administer("rebuild", x_api_key, build_index(fs, RoundTripCorpus, o))

RoundTripSearch == \E req \in RoundTripRequests : Serve(req, TextEnv(req.q))

RoundTripNext ==
    \/ RebuildFromFile
    \/ RoundTripSearch
    \/ Restart

RoundTripSpec == Init /\ [][RoundTripNext]_vars

\* C20: once the index over "video editor" (RA), "spreadsheet tool" (RB) and
\* "Video Editor" (RC) is built and loaded, a search for "video editor" with
\* the sparse engine succeeds, its first result is RA or RC, marked as exact
\* match, and its score is strictly greater than the score of RB.
C20_RoundTrip ==
    (/\ resp.op = "search"
     /\ resp.req.engine = "tfidf"
     /\ resp.req.q = VideoEditor
     /\ Ids(metas) = Ids(RoundTripCorpus))
    => /\ resp.status = 200
       /\ resp.results # <<>>
       /\ resp.results[1].id \in {"RA", "RC"}
       /\ resp.results[1].exact_match
       /\ \A i \in 1..Len(resp.results) :
             resp.results[i].id = "RB" => resp.results[1].score > resp.results[i].score

\* the search returned the three documents, the two exact matches first
C20_Witness ==
    /\ resp.op = "search" /\ resp.status = 200
    /\ resp.req.engine = "tfidf" /\ resp.req.q = VideoEditor
    /\ Len(resp.results) = 3
    /\ {resp.results[1].id, resp.results[2].id} = {"RA", "RC"}
    /\ resp.results[1].exact_match /\ resp.results[2].exact_match
    /\ resp.results[3].id = "RB" /\ ~resp.results[3].exact_match

(* ---------------------------- final ranking --------------------------- *)
\* the results of the request just answered had nothing been cut to k: with
\* k = Len(metas) the sub-engines are asked for the same candidate_k rows
\* (all of them: Len(metas) <= 3k), so the base scores are the same
Untruncated ==
    search(Globals, [resp.req EXCEPT !.k = Len(metas)], resp.env).c.results

\* C21: the results of a successful search are in descending order of final
\* score, and no candidate that was retrieved and passes the filters but is
\* missing from the results has a final score (base score plus exact-match
\* and field-evidence bonus) above that of a returned result.
C21_FinalRanking ==
    (SearchResp /\ resp.status = 200) =>
        /\ \A i \in 1..(Len(resp.results) - 1) :
              resp.results[i].score >= resp.results[i + 1].score
        /\ \A j \in 1..Len(Untruncated) :
              Untruncated[j].id \notin IdSet(resp.results) =>
                  \A i \in 1..Len(resp.results) :
                      Untruncated[j].score <= resp.results[i].score

(* --------------------------- sparse-only builds ------------------------ *)
\* the step ran build_index to its end (from /index/rebuild, or from
\* /index/update falling back to it)
BuildCompleted ==
    /\ fits' = fits + 1
    /\ resp'.op \in AdminOps /\ resp'.status = 200

\* the sparse side of a complete index of generation g over the Skill
\* table c: vectorizer, per-field sparse matrices, the sparse index the
\* index-meta names, and the metadata list
SparseSideWritten(disk, c, g) ==
    /\ disk.imeta.present
    /\ "tfidf" \in disk.imeta.available_engines
    /\ disk.vec.gen = g
    /\ Exists(disk.tfFields) /\ RowGens(disk.tfFields) = {g}
    /\ Exists(NamedSparse(disk)) /\ RowGens(NamedSparse(disk)) = {g}
    /\ Ids(NamedSparse(disk).rows) = Ids(load_from_db(c))
    /\ disk.metas.present /\ Ids(disk.metas.recs) = Ids(load_from_db(c))

\* skills.idx is a dense index over the Skill table c
DenseWritten(disk, c) ==
    disk.idx.d = DenseDim /\ Ids(disk.idx.rows) = Ids(load_from_db(c))

\* C22: every build that runs to its end, with or without the embedding
\* model, writes the vectorizer, the per-field sparse matrices, the sparse
\* index, the metadata list and the index-meta; the index-meta lists the
\* dense and the hybrid engine exactly when the build wrote a dense index.
C22_SparseOnlyBuild ==
    [][BuildCompleted =>
          /\ SparseSideWritten(fs', corpus, fits')
          /\ ("sbert" \in fs'.imeta.available_engines) = DenseWritten(fs', corpus)
          /\ ("hybrid" \in fs'.imeta.available_engines) = DenseWritten(fs', corpus)]_vars

\* a rebuild without the embedding model replaced a hybrid index: skills.idx
\* now holds the sparse index and the index-meta lists the sparse engine only
C22_Witness ==
    /\ resp.op = "rebuild" /\ resp.status = 200
    /\ fits = 2
    /\ fs.imeta.available_engines = {"tfidf"}
    /\ fs.idx.d \in SparseDims
    /\ Exists(fs.sbFields)

(* ----------------------------- hybrid blend --------------------------- *)
\* (weight + alpha) / 2.0 of line 401 for the call
EffectiveWeight == (call.arg.weight + _select_hybrid_alpha(call.arg.q)) \div 2

\* the place of row pos among the keys of score_map
SlotOf(sm, pos) == CHOOSE i \in 1..Len(sm.keys) : sm.keys[i] = pos

InUnit(x) == 0 <= x /\ x <= One

\* C23: the combined score of every candidate of a hybrid search is
\* effective_weight * dense_normalized + (1 - effective_weight) *
\* sparse_normalized, effective_weight being the average of hybrid_weight
\* and the adaptive blend factor; for every hybrid_weight in [0,1] both the
\* effective weight and the combined score lie in [0,1].
C23_HybridBlend ==
    HybridReturned =>
        LET sm == ret[1].score_map
            top == ret[1].top
        IN /\ ~ret[1].raised
           /\ InUnit(EffectiveWeight)
           /\ call.arg.k >= Len(sm.keys) => Len(top) = Len(sm.keys)
           /\ \A i \in 1..Len(top) :
                 /\ top[i].score =
                       (EffectiveWeight * sm.sbert_norm[SlotOf(sm, top[i].pos)]
                        + (One - EffectiveWeight) * sm.tfidf_norm[SlotOf(sm, top[i].pos)])
                       \div One
                 /\ InUnit(top[i].score)

\* a five-word query run with hybrid_weight 0.25 (effective weight 0.5)
\* returned all five candidates, dense scores negative
C23_Witness ==
    /\ HybridReturned
    /\ call.arg.weight = One \div 4 /\ call.arg.q = Words(5, <<" ">>)
    /\ EffectiveWeight = One \div 2
    /\ Len(ret[1].top) = Len(HybridIds)
    /\ \A pos \in 1..Len(HybridIds) : call.arg.sbert[pos] < 0

(* --------------------------- the query path --------------------------- *)
\* the step answered a /search request
SearchAnswered == resp'.op = "search" /\ corpus' = corpus

\* a lazy cache after a step: as it was, or filled from file
Filled(before, after, file) ==
    after = before \/ (~Exists(before) /\ after = file)

\* the body of the response to request req in environment env against globals g
Answer(g, req, env) == Response(search(g, req, env).c, req, env)

\* C24 as stated: a search changes nothing of the index state in memory,
\* the lazily loaded vectorizer and per-field matrices included, and no
\* persisted artifact.
C24_SearchChangesNothing ==
    [][SearchAnswered => (svc' = svc /\ fs' = fs)]_vars

\* C24: a search, successful or failing, changes no persisted artifact and
\* none of sbert_index, tfidf_index, metas and index_meta; of the vectorizer
\* and the per-field matrices it changes only a cache that was empty, which
\* it fills from the file; and in every state the answer to a request is
\* the same after any other request, answered or failed, has been served first.
C24_QueryPathReadOnly ==
    /\ [][SearchAnswered =>
             /\ fs' = fs
             /\ <<sbert_index, tfidf_index, metas, index_meta>>'
                   = <<sbert_index, tfidf_index, metas, index_meta>>
             /\ Filled(tfidf_vectorizer, tfidf_vectorizer', fs.vec)
             /\ Filled(tfidf_field_embeddings, tfidf_field_embeddings', fs.tfFields)
             /\ Filled(sbert_field_embeddings, sbert_field_embeddings', fs.sbFields)]_vars
    /\ [](\A r2 \in Requests, e2 \in {e \in Envs : e.encodeOk} :
             LET alone == Answer(Globals, r2, e2)
             IN \A r1 \in Requests, e1 \in Envs :
                    Answer(search(Globals, r1, e1).g, r2, e2) = alone)

\* a sparse search answered 500 on an index whose vectorizer file a failed
\* rebuild had replaced: it loaded the vectorizer, and changed nothing else
C24_Witness ==
    /\ resp.op = "search" /\ resp.status = 500 /\ resp.use_engine = "tfidf"
    /\ faultsLeft < MaxCrashes
    /\ Exists(tfidf_vectorizer) /\ tfidf_vectorizer = fs.vec
    /\ tfidf_vectorizer.d # tfidf_index.d

(* --------------------------- two writers ------------------------------ *)
(* WritersSpec: two accepted /index/rebuild or /index/update requests run  *)
(* in two threads of the worker pool, with no lock between them.  Each     *)
(* writes its files one by one and then reloads.  D was registered after   *)
(* the index over A and B was built and loaded; both requests see the      *)
(* same Skill table and the same embedding model.                          *)
WriterIds == {1, 2}

\* the files build_index writes, in the order it writes them
BuildFiles(sbertOk) ==
    IF sbertOk THEN <<"vec", "tfFields", "idx", "tfidfIdx", "sbFields", "metas", "imeta">>
    ELSE <<"vec", "tfFields", "idx", "metas", "imeta">>

\* outcome of a run nothing interrupts; the vectorizer fitted over the whole
\* Skill table is generation 2
CleanRun(sbertOk) ==
    [sbertOk |-> sbertOk, d |-> TFIDF_MAX_FEATURES, g |-> 2, n |-> 7,
     tfFieldsOk |-> TRUE, sbFieldsOk |-> TRUE, sbWriteOk |-> TRUE]

\* the k-th write of build_index on the disk as it is now
BuildStep(w, disk, k) ==
    LET f == BuildFiles(w.o.sbertOk)[k]
    IN [disk EXCEPT ![f] = build_index(disk, load_from_db(corpus), w.o).fs[f]]

\* the k-th step of update_index on the disk as it is now.  w.base is the
\* disk at lines 322-343, where existing_metas, the vectorizer and the
\* sparse index were read; the per-field matrices and the dense index are
\* read just before they are written.
UpdateStep(w, disk, k) ==
    LET existing_metas == w.base.metas.recs
        new_skills == NewSkills(load_from_db(corpus),
                                {existing_metas[i].id : i \in 1..Len(existing_metas)})
        vectorizer == StoredVectorizer(w.base)
        read == IF Exists(w.base.tfidfIdx) THEN "tfidfIdx" ELSE "idx"
        target == IF Exists(disk.tfidfIdx) THEN "tfidfIdx" ELSE "idx"
    IN CASE k = 1 ->
              [disk EXCEPT ![target] =
                  AddRows(w.base[read], SparseRows(new_skills, vectorizer.gen))]
         [] k = 2 ->
              IF Exists(disk.tfFields) /\ disk.tfFields.d = vectorizer.d
              THEN [disk EXCEPT !.tfFields = AddRows(@, SparseRows(new_skills, vectorizer.gen))]
              ELSE disk
         [] k = 3 ->
              IF w.o.sbertOk /\ Exists(disk.idx) /\ Exists(disk.sbFields)
              THEN [disk EXCEPT !.sbFields = AddRows(@, DenseRows(new_skills))]
              ELSE disk
         [] k = 4 ->
              IF w.o.sbertOk /\ disk.idx.d = DenseDim
              THEN [disk EXCEPT !.idx = AddRows(@, DenseRows(new_skills))]
              ELSE disk
         [] k = 5 ->
              [disk EXCEPT !.metas = [present |-> TRUE,
                                      recs |-> existing_metas \o MetaRecs(new_skills)]]

\* the writes writer w performs before it reloads; those of update_index
\* are the sparse index, the two per-field matrices, the dense index and
\* the metadata list
StepsOf(w) ==
    IF w.op = "rebuild" THEN Len(BuildFiles(w.o.sbertOk))
    ELSE IF update_index(w.base, load_from_db(corpus), w.o).path = "noop" THEN 0
    ELSE 5

\* POST /index/rebuild or /index/update is accepted and writer i starts:
\* it reads what it reads before its first write
WritersBegin ==
    \E i \in WriterIds, op \in AdminOps :
        /\ writer[i].pc = "idle"
        /\ _require_api_key(api_key, api_key) = 0
        /\ LET w == [pc |-> "write", op |-> op, n |-> 0, base |-> fs,
                     o |-> CleanRun(model)]
           IN writer' = [writer EXCEPT ![i] =
                            [w EXCEPT !.pc = IF StepsOf(w) = 0 THEN "reload" ELSE "write"]]
        /\ UNCHANGED <<corpus, fs, svc, model, api_key, unit, resp, counters, inflight>>

\* writer i completes its next write
WritersWrite ==
    \E i \in WriterIds :
        LET w == writer[i]
        IN /\ w.pc = "write"
           /\ fs' = IF w.op = "rebuild" THEN BuildStep(w, fs, w.n + 1)
                    ELSE UpdateStep(w, fs, w.n + 1)
           /\ writer' = [writer EXCEPT ![i] =
                            [w EXCEPT !.n = @ + 1,
                                      !.pc = IF w.n + 1 = StepsOf(w) THEN "reload"
                                             ELSE "write"]]
           /\ UNCHANGED <<corpus, svc, model, api_key, unit, resp, counters, inflight>>

\* lines 597-600 / 641-644 and the response of writer i
WritersReload ==
    \E i \in WriterIds :
        /\ writer[i].pc = "reload"
        /\ Reload(fs)
        /\ resp' = AdminResp(writer[i].op, 200, api_key)
        /\ writer' = [writer EXCEPT ![i] = [@ EXCEPT !.pc = "done"]]
        /\ UNCHANGED <<corpus, fs, model, api_key, unit, counters, inflight>>

WritersInit ==
    /\ corpus = WholeCorpus
    /\ model \in BOOLEAN
    /\ fs = build_index(EmptyDisk, load_from_db([WholeCorpus EXCEPT !["D"] = Absent]),
                        [CleanRun(model) EXCEPT !.g = 1]).fs
    /\ sbert_index = load_index(fs).sbert_index
    /\ tfidf_index = load_index(fs).tfidf_index
    /\ metas = load_index(fs).metas
    /\ index_meta = load_index(fs).index_meta
    /\ tfidf_vectorizer = NoVectorizer
    /\ tfidf_field_embeddings = NoIndex
    /\ sbert_field_embeddings = NoIndex
    /\ api_key = "secret"
    /\ resp = AdminResp("start", 0, "")
    /\ fits = 1 /\ updates = 0 /\ corpusOps = 0 /\ faultsLeft = 0
    /\ inflight = IdleSearch /\ writer = <<IdleWriter, IdleWriter>>
    /\ call = NoCall /\ ret = <<>>

WritersNext ==
    \/ WritersBegin
    \/ WritersWrite
    \/ WritersReload

WritersSpec == WritersInit /\ [][WritersNext]_vars

\* the disk after operation op has run alone on disk
RunAlone(op, disk) ==
    IF op = "rebuild" THEN build_index(disk, load_from_db(corpus), CleanRun(model)).fs
    ELSE update_index(disk, load_from_db(corpus), CleanRun(model)).fs

\* the index the service started with
FirstIndex ==
    build_index(EmptyDisk, load_from_db([WholeCorpus EXCEPT !["D"] = Absent]),
                [CleanRun(model) EXCEPT !.g = 1]).fs

\* the disks the two operations leave when one runs after the other
SerialDisks ==
    {RunAlone(writer[2].op, RunAlone(writer[1].op, FirstIndex)),
     RunAlone(writer[1].op, RunAlone(writer[2].op, FirstIndex))}

BothReturned == \A i \in WriterIds : writer[i].pc = "done"

\* C25: when both writers have returned, the persisted artifacts are those
\* some serial order of the two operations leaves, and the index in memory
\* is the one load_index reads from them.
C25_WritersSerialisable ==
    BothReturned =>
        /\ fs \in SerialDisks
        /\ <<sbert_index, tfidf_index, metas, index_meta>>
              = <<load_index(fs).sbert_index, load_index(fs).tfidf_index,
                  load_index(fs).metas, load_index(fs).index_meta>>

(* ------------------------ the files an update extends ------------------ *)
\* the step is an update_index run that took the incremental path and returned
UpdateAppended == resp'.op = "update" /\ resp'.status = 200 /\ updates' = updates + 1

IndexFiles == {"skills.idx", "skills_tfidf.idx"}

\* the file at path holds, after the step, its rows and one more for each new skill
Extended(path) ==
    LET new == NewSkills(load_from_db(corpus), IdSet(fs.metas.recs))
    IN Ids(ReadIndex(fs', path).rows) = Ids(ReadIndex(fs, path).rows) \o Ids(new)

\* C26: an incremental update appends the sparse vectors of the new skills
\* to the file index-meta names as tfidf_index_path, and changes no index
\* file that index-meta does not name, whatever builds (hybrid or
\* sparse-only) came before.  (The file named as sbert_index_path is left
\* aside here: the update skips it when the embedding model is unavailable.)
C26_UpdateExtendsNamedFiles ==
    [][UpdateAppended =>
          LET named == {fs.imeta.tfidf_index_path, fs.imeta.sbert_index_path} \ {"null"}
          IN /\ Extended(fs.imeta.tfidf_index_path)
             /\ \A path \in IndexFiles \ named : ReadIndex(fs', path) = ReadIndex(fs, path)]_vars

(* --------------------- one skill, built or appended -------------------- *)
ItemReturned == call.fn \in {"build_index: item", "update_index: item"} /\ ret # <<>>

\* C27: the per-field texts, the combined text and the metadata record of
\* a skill are the same whether build_index or update_index derives them,
\* its secondary name and description included.
C27_SameItemEitherWay ==
    ItemReturned =>
        /\ ret[1] = build_index_item(call.arg)
        /\ ret[1] = update_index_item(call.arg)

(* --------------------- a lazy load across a reload --------------------- *)
(* LoaderSpec: the service of ConcSpec, with one sparse /search request    *)
(* whose load_tfidf_vectorizer runs in two steps, as the interpreter runs   *)
(* line 175: pickle.load reads the file, then the result is stored in the   *)
(* module global.  A writer may run in between; other requests run in one  *)
(* step.                                                                   *)
SparseRequest == CHOOSE req \in Requests : req.engine = "tfidf"
LoaderEnv == CHOOSE env \in Envs : env.encodeOk

\* lines 163-175, up to the return of pickle.load(f)
LoaderRead ==
    /\ inflight.pc = "idle"
    /\ ~Exists(tfidf_vectorizer)
    /\ index_meta.tfidf_vectorizer_path = "skills_tfidf_vectorizer.pkl"
    /\ Exists(fs.vec)
    /\ inflight' = [pc |-> "loaded", req |-> SparseRequest, env |-> LoaderEnv,
                    c |-> StartCtx, views |-> <<>>, loaded |-> fs.vec]
    /\ UNCHANGED <<corpus, fs, svc, model, api_key, unit, resp, counters, writer>>

\* the store of line 175, and the rest of the request
LoaderStore ==
    /\ inflight.pc = "loaded"
    /\ LET r == search([Globals EXCEPT !.tfidf_vectorizer = inflight.loaded],
                       inflight.req, inflight.env)
       IN /\ resp' = Response(r.c, inflight.req, inflight.env)
          /\ tfidf_vectorizer' = r.g.tfidf_vectorizer
          /\ tfidf_field_embeddings' = r.g.tfidf_field_embeddings
          /\ sbert_field_embeddings' = r.g.sbert_field_embeddings
    /\ inflight' = [inflight EXCEPT !.pc = "done"]
    /\ UNCHANGED <<corpus, fs, sbert_index, tfidf_index, metas, index_meta, model, api_key,
                   unit, counters, writer>>

\* a request for the sparse or the default engine, served in one step
LoaderSearch ==
    \E req \in {r \in Requests : r.engine \in {"tfidf", "auto"}} : Serve(req, LoaderEnv)

LoaderNext ==
    \/ LoaderRead
    \/ LoaderStore
    \/ WriterBegin
    \/ WriterWrite
    \/ WriterSwap
    \/ WriterReset
    \/ LoaderSearch

LoaderSpec == ConcInit /\ [][LoaderNext]_vars

\* a writer has returned and none is running
WriterReturned == writer.pc = "idle" /\ (fits > 1 \/ updates > 0)

\* the step is a /search request that arrived and was answered in this step
LaterSearch == SearchAnswered /\ resp'.status = 200 /\ inflight' = inflight

\* C28: a search that arrives after a rebuild or an update has returned,
\* with no writer running, works with the vectorizer and the per-field
\* matrices of the files that writer left: a cache it finds or fills holds
\* what the file holds.
C28_LaterSearchesUseNewGeneration ==
    [][(WriterReturned /\ LaterSearch) =>
          /\ Exists(tfidf_vectorizer') => tfidf_vectorizer' = fs.vec
          /\ Exists(tfidf_field_embeddings') => tfidf_field_embeddings' = fs.tfFields
          /\ Exists(sbert_field_embeddings') => sbert_field_embeddings' = fs.sbFields]_vars

(* ----------------------- the weight in the response -------------------- *)
\* the weight a request runs with: the caller's value, or the default
WeightOf(req) ==
    IF req.hybrid_weight = <<>> THEN <<DEFAULT_HYBRID_NLP_WEIGHT>> ELSE req.hybrid_weight

\* C29: the hybrid_weight of a response is the weight the query ran with (the
\* caller's value, or the default 0.7) when the hybrid engine answered, and
\* null for any other engine.
C29_ResponseWeight ==
    (SearchResp /\ resp.status = 200) =>
        resp.hybrid_weight = IF resp.use_engine = "hybrid" THEN WeightOf(resp.req) ELSE <<>>

(* ------------------------ the execution gate --------------------------- *)
\* C30: POST /generate/{skill_name} runs wrapper.py only if the query to
\* skillshub succeeded (it answered 200) and SKILLSHUB_ALLOW_EXEC is '1'.
C30_ExecutionGated ==
    (call.fn = "generate" /\ ret # <<>> /\ ret[1].ran) =>
        (call.arg.skillshub = "200" /\ call.arg.allow_exec = "1")
====
